---- MODULE Spec2Model ----
(***************************************************************************)
(* RenderManagerService (packages/engine-render/src/render-manager/        *)
(* render-manager.service.ts): the table of render units keyed by unit id, *)
(* the per-type registry of render modules, the create-or-replace and the  *)
(* disposal protocol, and the lifecycle event streams.                     *)
(*                                                                         *)
(* Every public method is one action.  A method is translated as a         *)
(* function from the service's state (a record with one field per          *)
(* VARIABLE) to the state it leaves; the private methods it calls are      *)
(* operators of the same shape, so an action is the whole call.            *)
(* Objects (units, engines, scenes, arrays, handles) are references into   *)
(* heaps, because the code compares and shares them by identity.           *)
(***************************************************************************)
EXTENDS Integers, Sequences, FiniteSets, Bags, TLC

\* ------------------------------------------------------------------ bounds

\* IRender objects constructed before a call may construct another (by
\* createRender or by a caller of addRender)
MaxUnits == 2
\* addRender calls
MaxAdds == 1
\* registerRenderModule / registerRenderModules calls
MaxRegs == 1
\* registrations in the behaviours that are about the registry alone
MaxHandles == 2
\* table groups a TableGroupManager holds
MaxGroups == 3

\* ------------------------------------------------------- the environment

\* unit ids the callers use
UnitIds == {"doc1", "doc2", "thumb1"}

\* render modules (Dependency descriptors) the callers register
Dependencies == {"m1", "m2"}

\* the lists a caller passes to registerRenderModules
DepLists == {<<"m1", "m2">>, <<"m2", "m2">>}

\* the types callers register modules for
RegisterTypes == {"UNIVER_SHEET", "UNIVER_SLIDE"}


\* Nullable: null / undefined
Null == 0

\* IUniverInstanceService.getUnit: the documents the registry holds
getUnit(unitId) == unitId \in {"doc1", "doc2"}

\* IUniverInstanceService.getUnitType
getUnitType(unitId) == "UNIVER_SHEET"

\* the component map the RenderUnit of a document is populated with (keys in
\* insertion order; the first is the main component)
componentsOf(unitId) == IF unitId = "doc1" THEN <<"main", "aux">> ELSE <<"main">>

\* ------------------------------------------------------------------- state

VARIABLES
    renderMap,           \* _renderMap: Map<string, IRender>, entries in insertion order
    renderDependencies,  \* _renderDependencies: Map<UnitType, Dependency[]>, type -> array reference
    depArrays,           \* heap of the Dependency[] arrays the registry created
    handles,             \* the IDisposable handles the register methods returned
    currentUnitId,       \* _currentUnitId
    completed,           \* the subjects on which complete() was called
    units,               \* heap of IRender objects
    nextEngine,          \* Engine objects constructed so far + 1
    defaultEngine,       \* _defaultEngine (Null until the getter is first read)
    disposed,            \* Disposable._disposed, set by super.dispose()
    adds,                \* addRender calls so far
    disposeCalls,        \* bag: how often dispose() was called on each collaborator object
    trace,               \* the collaborator calls and emissions of the last method call, in order
    lastCall,            \* the last method call: name, arguments, return value
    tableGroups,         \* TableGroupManager._tableGroups: ITableGroup[]
    tableCall,           \* the last method called on the TableGroupManager, and its result
    popupMap,            \* CanvasPopupService._popupMap: Map<string, IPopup>
    popupsValue,         \* the latest value _popups$ emitted to its observers
    popupsCompleted,     \* complete() was called on _popups$
    popupDisposed,       \* Disposable._disposed of the CanvasPopupService
    popupCall            \* the last method called on the CanvasPopupService: name, id,
                         \* and the values _popups$ emitted during the call

\* the RenderManagerService
managerVars ==
    <<renderMap, renderDependencies, depArrays, handles, currentUnitId, completed,
      units, nextEngine, defaultEngine, disposed, adds, disposeCalls, trace, lastCall>>

\* the TableGroupManager
tableVars == <<tableGroups, tableCall>>

\* the CanvasPopupService
popupVars == <<popupMap, popupsValue, popupsCompleted, popupDisposed, popupCall>>

vars == <<managerVars, tableVars, popupVars>>

\* the service's state as one value, at the start of a method call
State ==
    [renderMap |-> renderMap, renderDependencies |-> renderDependencies,
     depArrays |-> depArrays, handles |-> handles, currentUnitId |-> currentUnitId,
     completed |-> completed, units |-> units, nextEngine |-> nextEngine,
     defaultEngine |-> defaultEngine, disposed |-> disposed,
     disposeCalls |-> disposeCalls, trace |-> <<>>, ret |-> Null, retName |-> "",
     retList |-> <<>>, retBool |-> FALSE, thrown |-> FALSE,
     subscriber |-> ""]

\* ------------------------------------------------------------ Map<K, V>

\* Map.prototype.has
MapHas(m, k) == \E i \in 1..Len(m) : m[i].key = k

\* Map.prototype.get (undefined when absent)
MapGet(m, k) ==
    IF MapHas(m, k) THEN m[CHOOSE i \in 1..Len(m) : m[i].key = k].val ELSE Null

\* Map.prototype.set: an existing key keeps its place, a new key goes last
MapSet(m, k, v) ==
    IF MapHas(m, k)
    THEN [i \in 1..Len(m) |-> IF m[i].key = k THEN [key |-> k, val |-> v] ELSE m[i]]
    ELSE Append(m, [key |-> k, val |-> v])

\* Map.prototype.delete
MapDelete(m, k) == SelectSeq(m, LAMBDA e : e.key # k)

\* ------------------------------------------------ collaborators and events

Obj(kind, ref, key) == [kind |-> kind, ref |-> ref, key |-> key]
ComponentObj(u, k) == Obj("component", u, k)
SceneObj(sc) == Obj("scene", sc, "")
UnitObj(u) == Obj("unit", u, "")
EngineObj(e) == Obj("engine", e, "")

\* x.dispose() on a component, a scene, a unit or an engine
Dispose(s, obj) ==
    [s EXCEPT !.disposeCalls = @ (+) SetToBag({obj}),
              !.trace = Append(@, [call |-> "dispose", obj |-> obj, delivered |-> TRUE,
                                   table |-> s.renderMap])]

\* Subject.next: delivered to the subscribers unless the subject is completed;
\* table is what a subscriber reacting synchronously finds in the manager
SubjectNext(s, subject, payload) ==
    [s EXCEPT !.trace = Append(@, [call |-> subject, obj |-> payload,
                                   delivered |-> subject \notin s.completed,
                                   table |-> s.renderMap])]

\* isDisposable(thing): typeof thing.dispose === 'function'
isDisposable(thing) == thing.disposable

\* ---------------------------------------------------------------- queries

getRenderById(s, unitId) == MapGet(s.renderMap, unitId)

has(s, unitId) == MapHas(s.renderMap, unitId)

getRenderAll(s) == s.renderMap

\* IRender.with(dependency): a RenderUnit asks its injector, which holds the
\* modules injected into the unit; the thumbnail stub's with() returns null
With(s, renderer, dependency) ==
    IF s.units[renderer].isRenderUnit
       /\ \E i \in 1..Len(s.units[renderer].injected) : s.units[renderer].injected[i] = dependency
    THEN dependency
    ELSE ""

\* IUniverInstanceService.getCurrentUnitForType(type): the ids the focused
\* document of a type can have ("" when no document of the type is current)
CurrentUnitsForType(type) ==
    {""} \cup {unitId \in UnitIds : getUnit(unitId) /\ getUnitType(unitId) = type}

getCurrent(s) == [s EXCEPT !.ret = MapGet(s.renderMap, s.currentUnitId)]

\* [...this.getRenderAll().values()][0]
getFirst(s) == [s EXCEPT !.ret = IF Len(getRenderAll(s)) = 0 THEN Null ELSE getRenderAll(s)[1].val]

\* current is what getCurrentUnitForType(type) returns
getCurrentTypeOfRenderer(s, type, current) ==
    IF current = "" THEN [s EXCEPT !.ret = Null]
    ELSE [s EXCEPT !.ret = getRenderById(s, current)]

\* mutant: the renderer of the current document is used without the ?. guard
WithCurrentTypeOfUnitUnguarded(s, type, current, id) ==
    IF current = "" THEN [s EXCEPT !.retName = ""]
    ELSE IF getRenderById(s, current) = Null THEN [s EXCEPT !.retName = "", !.thrown = TRUE]
    ELSE [s EXCEPT !.retName = With(s, getRenderById(s, current), id)]

\* this.getRenderById(current.getUnitId())?.with(id)
withCurrentTypeOfUnit(s, type, current, id) ==
    IF current = "" THEN [s EXCEPT !.retName = ""]
    ELSE IF getRenderById(s, current) = Null THEN [s EXCEPT !.retName = ""]
    ELSE [s EXCEPT !.retName = With(s, getRenderById(s, current), id)]

\* mutant: the scan does not compare the type
RECURSIVE AllRenderers(_, _, _)
AllRenderers(s, type, i) ==
    IF i > Len(s.renderMap) THEN <<>>
    ELSE <<s.renderMap[i].val>> \o AllRenderers(s, type, i + 1)

RECURSIVE RenderersOfType(_, _, _)
\* for (const [_, render] of this._renderMap) if (render.type === type) push(render)
RenderersOfType(s, type, i) ==
    IF i > Len(s.renderMap) THEN <<>>
    ELSE (IF s.units[s.renderMap[i].val].type = type THEN <<s.renderMap[i].val>> ELSE <<>>)
             \o RenderersOfType(s, type, i + 1)

getAllRenderersOfType(s, type) == [s EXCEPT !.retList = RenderersOfType(s, type, 1)]

\* ------------------------------------------------------ disposal protocol

RECURSIVE DisposeComponents(_, _, _, _)
\* components?.forEach((component) => component.dispose())
DisposeComponents(s, item, components, i) ==
    IF i > Len(components) THEN s
    ELSE DisposeComponents(Dispose(s, ComponentObj(item, components[i])), item, components, i + 1)

\* mutant: "disposed" is published before the engine is destroyed
DisposeItemPublishesEarly(s, item, shouldDestroyEngine) ==
    IF item = Null THEN s
    ELSE
        LET u == s.units[item]
            s1 == DisposeComponents(s, item, u.components, 1)
            s2 == Dispose(s1, SceneObj(u.scene))
            s3 == IF isDisposable(u) THEN Dispose(s2, UnitObj(item)) ELSE s2
            s4 == SubjectNext(s3, "_renderDisposed$", Obj("string", item, u.unitId))
        IN  IF shouldDestroyEngine THEN Dispose(s4, EngineObj(u.engine)) ELSE s4

_disposeItem(s, item, shouldDestroyEngine) ==
    IF item = Null THEN s
    ELSE
        LET u == s.units[item]
            s1 == DisposeComponents(s, item, u.components, 1)
            s2 == Dispose(s1, SceneObj(u.scene))
            s3 == IF isDisposable(u) THEN Dispose(s2, UnitObj(item)) ELSE s2
            s4 == IF shouldDestroyEngine THEN Dispose(s3, EngineObj(u.engine)) ELSE s3
        IN  SubjectNext(s4, "_renderDisposed$", Obj("string", item, u.unitId))

\* ------------------------------------------------------- module registry

\* a module of a RenderUnit, as the object a call acts on
ModuleObj(renderer, dep) == Obj("module", renderer, dep)

RECURSIVE InstantiateEach(_, _, _, _)
\* the unit instantiates the modules one after the other; the constructor of a
\* module runs inside the call and finds the manager as it is then (table)
InstantiateEach(s, renderer, deps, i) ==
    IF i > Len(deps) THEN s
    ELSE InstantiateEach(
             [s EXCEPT !.units[renderer].injected = Append(@, deps[i]),
                       !.trace = Append(@, [call |-> "module",
                                            obj |-> ModuleObj(renderer, deps[i]),
                                            delivered |-> TRUE,
                                            table |-> s.renderMap])],
             renderer, deps, i + 1)

\* RenderUnit.addRenderDependencies: the unit instantiates the modules
addRenderDependencies(s, renderer, deps) == InstantiateEach(s, renderer, deps, 1)

\* mutant: injection without the instanceof RenderUnit test
TryAddRenderDependenciesAlways(s, renderer, deps) ==
    addRenderDependencies(s, renderer, deps)

_tryAddRenderDependencies(s, renderer, deps) ==
    IF s.units[renderer].isRenderUnit
    THEN addRenderDependencies(s, renderer, deps)
    ELSE s

_getRenderControllersForType(s, type) ==
    IF type \in DOMAIN s.renderDependencies
    THEN s.depArrays[s.renderDependencies[type]]
    ELSE <<>>

\* if (!this._renderDependencies.has(type)) this._renderDependencies.set(type, [])
EnsureDependencies(s, type) ==
    IF type \in DOMAIN s.renderDependencies THEN s
    ELSE [s EXCEPT !.depArrays = Append(@, <<>>),
                   !.renderDependencies = (type :> (Len(s.depArrays) + 1)) @@ @]

RECURSIVE InjectLiveAnyType(_, _, _, _)
\* mutant: the loop over the table does not compare the unit's type
InjectLiveAnyType(s, type, deps, i) ==
    IF i > Len(s.renderMap) THEN s
    ELSE InjectLiveAnyType(_tryAddRenderDependencies(s, s.renderMap[i].val, deps),
                           type, deps, i + 1)

RECURSIVE InjectLive(_, _, _, _)
\* for (const [_, render] of this._renderMap) if (render.type === type) ...
InjectLive(s, type, deps, i) ==
    IF i > Len(s.renderMap) THEN s
    ELSE LET render == s.renderMap[i].val
             s1 == IF s.units[render].type = type
                   THEN _tryAddRenderDependencies(s, render, deps)
                   ELSE s
         IN  InjectLive(s1, type, deps, i + 1)

\* toDisposable(callback): the handle runs its callback on the first dispose() only;
\* the callback holds the array the type had at registration and the modules given
toDisposable(s, dependencies, deps) ==
    [s EXCEPT !.handles = Append(@, [dependencies |-> dependencies, deps |-> deps,
                                     disposed |-> FALSE]),
              !.ret = Len(s.handles) + 1]

registerRenderModules(s, type, deps) ==
    LET s1 == EnsureDependencies(s, type)
        dependencies == s1.renderDependencies[type]
        s2 == [s1 EXCEPT !.depArrays[dependencies] = @ \o deps]
        s3 == InjectLive(s2, type, deps, 1)
    IN  toDisposable(s3, dependencies, deps)

\* mutant: the module is recorded for units to come, the live units get nothing
RegisterRenderModuleOnlyRecords(s, type, ctor) ==
    LET s1 == EnsureDependencies(s, type)
        dependencies == s1.renderDependencies[type]
        s2 == [s1 EXCEPT !.depArrays[dependencies] = Append(@, ctor)]
    IN  toDisposable(s2, dependencies, <<ctor>>)

registerRenderModule(s, type, ctor) ==
    LET s1 == EnsureDependencies(s, type)
        dependencies == s1.renderDependencies[type]
        s2 == [s1 EXCEPT !.depArrays[dependencies] = Append(@, ctor)]
        s3 == InjectLive(s2, type, <<ctor>>, 1)
    IN  toDisposable(s3, dependencies, <<ctor>>)

\* remove(arr, item) of @univerjs/core: splice out the first occurrence, if any
remove(arr, item) ==
    IF \E i \in 1..Len(arr) : arr[i] = item
    THEN LET idx == CHOOSE i \in 1..Len(arr) :
                        arr[i] = item /\ \A j \in 1..(i - 1) : arr[j] # item
         IN  SubSeq(arr, 1, idx - 1) \o SubSeq(arr, idx + 1, Len(arr))
    ELSE arr

RECURSIVE RemoveEach(_, _, _)
\* deps.forEach((dep) => remove(dependencies, dep))
RemoveEach(arr, deps, i) ==
    IF i > Len(deps) THEN arr ELSE RemoveEach(remove(arr, deps[i]), deps, i + 1)

\* mutant: the handle's callback leaves the array as it is
HandleDisposeKeeps(s, h) ==
    [s EXCEPT !.handles[h].disposed = TRUE]

\* handle.dispose() of a handle a register method returned
handleDispose(s, h) ==
    IF s.handles[h].disposed THEN s
    ELSE [s EXCEPT !.handles[h].disposed = TRUE,
                   !.depArrays[s.handles[h].dependencies] =
                       RemoveEach(@, s.handles[h].deps, 1)]

\* ------------------------------------------------------ create-or-replace

_addRenderUnit(s, unitId, item) ==
    [s EXCEPT !.renderMap = MapSet(@, unitId, item)]

\* the RenderUnit the injector builds for a document
NewRenderUnit(unitId, type, engine, scene, isMainScene) ==
    [unitId |-> unitId, type |-> type, engine |-> engine, scene |-> scene,
     mainComponent |-> componentsOf(unitId)[1], components |-> componentsOf(unitId),
     isMainScene |-> isMainScene, isThumbNail |-> FALSE,
     isRenderUnit |-> TRUE, disposable |-> TRUE, injected |-> <<>>,
     origin |-> "createRender", added |-> 0]

\* the object literal of the thumbnail branch
ThumbNailStub(unitId, engine, scene, isMainScene) ==
    [unitId |-> unitId, type |-> "UNIVER_SLIDE", engine |-> engine, scene |-> scene,
     mainComponent |-> "", components |-> <<>>,
     isMainScene |-> isMainScene, isThumbNail |-> TRUE,
     isRenderUnit |-> FALSE, disposable |-> FALSE, injected |-> <<>>,
     origin |-> "createRender", added |-> 0]

\* mutant: the unit of a document is seeded with the modules of every type
BuildUnitSeedsAllTypes(s, unitId, engine, scene, isMainScene) ==
    IF getUnit(unitId)
    THEN LET type == getUnitType(unitId)
             ctors == IF Len(s.depArrays) = 0 THEN <<>> ELSE s.depArrays[Len(s.depArrays)]
             renderUnit == NewRenderUnit(unitId, type, engine, scene, isMainScene)
         IN  _tryAddRenderDependencies(
                 [s EXCEPT !.units = Append(@, renderUnit)], Len(s.units) + 1, ctors)
    ELSE [s EXCEPT !.units = Append(@, ThumbNailStub(unitId, engine, scene, isMainScene))]

\* mutant: an id without a document gets a RenderUnit too
BuildUnitAlwaysFull(s, unitId, engine, scene, isMainScene) ==
    LET type == getUnitType(unitId)
        ctors == _getRenderControllersForType(s, type)
        renderUnit == NewRenderUnit(unitId, type, engine, scene, isMainScene)
    IN  _tryAddRenderDependencies(
            [s EXCEPT !.units = Append(@, renderUnit)], Len(s.units) + 1, ctors)

\* the units of the create-or-replace paths: the RenderUnit of a document, with
\* the modules registered for its type, or the thumbnail stub
BuildUnit(s, unitId, engine, scene, isMainScene) ==
    IF getUnit(unitId)
    THEN LET type == getUnitType(unitId)
             ctors == _getRenderControllersForType(s, type)
             renderUnit == NewRenderUnit(unitId, type, engine, scene, isMainScene)
         IN  _tryAddRenderDependencies(
                 [s EXCEPT !.units = Append(@, renderUnit)], Len(s.units) + 1, ctors)
    ELSE [s EXCEPT !.units = Append(@, ThumbNailStub(unitId, engine, scene, isMainScene))]

\* mutant: the engine of the previous unit is destroyed although it is the
\* engine supplied
CreateRenderDestroysReused(s, unitId, engine, isMainScene) ==
    LET existItem == getRenderById(s, unitId)
        s1 == _disposeItem(s, existItem, TRUE)
        ref == Len(s1.units) + 1
    IN  [_addRenderUnit(BuildUnit(s1, unitId, engine, ref, isMainScene), unitId, ref)
            EXCEPT !.ret = ref]

\* mutant: the id is pointed at the new unit before its modules are injected
CreateRenderInsertsEarly(s, unitId, engine, isMainScene) ==
    LET existItem == getRenderById(s, unitId)
        shouldDestroyEngine ==
            IF existItem # Null /\ s.units[existItem].engine = engine THEN FALSE ELSE TRUE
        s1 == _disposeItem(s, existItem, shouldDestroyEngine)
        ref == Len(s1.units) + 1
        s2 == BuildUnit(_addRenderUnit(s1, unitId, ref), unitId, engine, ref, isMainScene)
    IN  [s2 EXCEPT !.ret = ref]

\* mutant: the previous unit of the id is overwritten without being disposed
CreateRenderNoDisposal(s, unitId, engine, isMainScene) ==
    LET ref == Len(s.units) + 1
    IN  [_addRenderUnit(BuildUnit(s, unitId, engine, ref, isMainScene), unitId, ref)
            EXCEPT !.ret = ref]

_createRender(s, unitId, engine, isMainScene) ==
    LET existItem == getRenderById(s, unitId)
        shouldDestroyEngine ==
            IF existItem # Null /\ s.units[existItem].engine = engine THEN FALSE ELSE TRUE
        s1 == _disposeItem(s, existItem, shouldDestroyEngine)
        ref == Len(s1.units) + 1
        scene == ref
        s2 == BuildUnit(s1, unitId, engine, scene, isMainScene)
    IN  [_addRenderUnit(s2, unitId, ref) EXCEPT !.ret = ref]

\* get defaultEngine: the engine is constructed on the first read
getDefaultEngine(s) ==
    IF s.defaultEngine = Null
    THEN [s EXCEPT !.defaultEngine = s.nextEngine, !.nextEngine = @ + 1, !.ret = s.nextEngine]
    ELSE [s EXCEPT !.ret = s.defaultEngine]

\* mutant: createRender builds the unit on the manager's default engine
CreateRenderOnDefaultEngine(s, unitId) ==
    LET s0 == getDefaultEngine(s)
        s1 == _createRender(s0, unitId, s0.ret, TRUE)
        renderer == s1.ret
    IN  SubjectNext(s1, "_renderCreated$", Obj("IRender", renderer, unitId))

\* mutant: "created" is published before the unit is put into the table
CreateRenderPublishesFirst(s, unitId) ==
    LET engine == s.nextEngine
        s1 == _createRender([s EXCEPT !.nextEngine = @ + 1], unitId, engine, TRUE)
        renderer == s1.ret
        early == SubjectNext([s1 EXCEPT !.renderMap = MapDelete(@, unitId)],
                             "_renderCreated$", Obj("IRender", renderer, unitId))
    IN  [early EXCEPT !.renderMap = s1.renderMap]

\* mutant: a disposed manager makes no unit
CreateRenderRefusesDisposed(s, unitId) ==
    IF s.disposed THEN [s EXCEPT !.ret = Null]
    ELSE LET engine == s.nextEngine
             s1 == _createRender([s EXCEPT !.nextEngine = @ + 1], unitId, engine, TRUE)
             renderer == s1.ret
         IN  SubjectNext(s1, "_renderCreated$", Obj("IRender", renderer, unitId))

\* create(unitId): this._createRender$.next(unitId)
create(s, unitId) ==
    SubjectNext(s, "_createRender$", Obj("string", Null, unitId))

createRender(s, unitId) ==
    LET engine == s.nextEngine
        s1 == _createRender([s EXCEPT !.nextEngine = @ + 1], unitId, engine, TRUE)
        renderer == s1.ret
    IN  SubjectNext(s1, "_renderCreated$", Obj("IRender", renderer, unitId))

\* mutant: the entry the id had is disposed, as the create-or-replace path does
AddRenderDisposesPrevious(s, unitId, item) ==
    LET s1 == _disposeItem(s, getRenderById(s, unitId), TRUE)
    IN  _addRenderUnit([s1 EXCEPT !.units[item].added = @ + 1], unitId, item)

\* (added counts, per IRender, the addRender calls that were given it)
addRender(s, unitId, item) ==
    _addRenderUnit([s EXCEPT !.units[item].added = @ + 1], unitId, item)

\* mutant: "disposed" is published for an id the table does not hold
RemoveRenderPublishesAbsent(s, unitId) ==
    LET item == MapGet(s.renderMap, unitId)
        s1 == IF item # Null THEN _disposeItem(s, item, TRUE)
              ELSE SubjectNext(s, "_renderDisposed$", Obj("string", Null, unitId))
    IN  [s1 EXCEPT !.renderMap = MapDelete(@, unitId)]

\* mutant: the entry is disposed and left in the table
RemoveRenderKeepsEntry(s, unitId) ==
    LET item == MapGet(s.renderMap, unitId)
    IN  IF item # Null THEN _disposeItem(s, item, TRUE) ELSE s

\* mutant: removing the current unit resets the current-unit pointer
RemoveRenderResetsCurrent(s, unitId) ==
    LET item == MapGet(s.renderMap, unitId)
        s1 == IF item # Null THEN _disposeItem(s, item, TRUE) ELSE s
    IN  [s1 EXCEPT !.renderMap = MapDelete(@, unitId),
                   !.currentUnitId = IF @ = unitId THEN "" ELSE @]

\* mutant: the entry is deleted before the unit is disposed
RemoveRenderDeletesFirst(s, unitId) ==
    LET item == MapGet(s.renderMap, unitId)
        s1 == [s EXCEPT !.renderMap = MapDelete(@, unitId)]
    IN  IF item # Null THEN _disposeItem(s1, item, TRUE) ELSE s1

removeRender(s, unitId) ==
    LET item == MapGet(s.renderMap, unitId)
        s1 == IF item # Null THEN _disposeItem(s, item, TRUE) ELSE s
    IN  [s1 EXCEPT !.renderMap = MapDelete(@, unitId)]

\* mutant: the current id is set and published only for an id the table holds
SetCurrentOnlyKnown(s, unitId) ==
    IF has(s, unitId)
    THEN SubjectNext([s EXCEPT !.currentUnitId = unitId], "_currentRender$", Obj("string", Null, unitId))
    ELSE s

setCurrent(s, unitId) ==
    SubjectNext([s EXCEPT !.currentUnitId = unitId], "_currentRender$", Obj("string", Null, unitId))

\* an IRender a caller of addRender constructed itself
ExternalUnit(unitId, engine, scene, isRenderUnit) ==
    [unitId |-> unitId, type |-> "UNIVER_SHEET", engine |-> engine, scene |-> scene,
     mainComponent |-> "main", components |-> <<"main">>,
     isMainScene |-> TRUE, isThumbNail |-> FALSE,
     isRenderUnit |-> isRenderUnit, disposable |-> isRenderUnit, injected |-> <<>>,
     origin |-> "external", added |-> 0]

RECURSIVE DisposeItems(_, _, _)
\* this._renderMap.forEach((item) => this._disposeItem(item))
DisposeItems(s, items, i) ==
    IF i > Len(items) THEN s
    ELSE DisposeItems(_disposeItem(s, items[i].val, TRUE), items, i + 1)

\* mutant: the lifecycle streams are not completed
DisposeLeavesStreamsOpen(s) ==
    LET s1 == DisposeItems([s EXCEPT !.disposed = TRUE], s.renderMap, 1)
    IN  [s1 EXCEPT !.renderDependencies = <<>>,
                   !.renderMap = <<>>,
                   !.completed = @ \cup {"_currentRender$"}]

\* mutant: the table is not cleared after its units were disposed
DisposeKeepsTable(s) ==
    LET s1 == DisposeItems([s EXCEPT !.disposed = TRUE], s.renderMap, 1)
    IN  [s1 EXCEPT !.renderDependencies = <<>>,
                   !.completed = @ \cup {"_currentRender$", "_renderCreated$", "_renderDisposed$"}]

\* mutant: the module registry is not cleared
DisposeKeepsRegistry(s) ==
    LET s1 == DisposeItems(s, s.renderMap, 1)
    IN  [s1 EXCEPT !.disposed = TRUE,
                   !.renderMap = <<>>,
                   !.completed = @ \cup {"_currentRender$", "_renderCreated$", "_renderDisposed$"}]

\* mutant: the table is cleared without disposing its units
DisposeOnlyClears(s) ==
    [s EXCEPT !.disposed = TRUE,
              !.renderDependencies = <<>>,
              !.renderMap = <<>>,
              !.completed = @ \cup {"_currentRender$", "_renderCreated$", "_renderDisposed$"}]

dispose(s) ==
    LET s1 == DisposeItems([s EXCEPT !.disposed = TRUE], s.renderMap, 1)
    IN  [s1 EXCEPT !.renderDependencies = <<>>,
                   !.renderMap = <<>>,
                   !.completed = @ \cup {"_currentRender$", "_renderCreated$", "_renderDisposed$"}]

\* ------------------------------------------- a subscriber that calls back

\* what a subscriber of disposed$ does, once, when it is delivered its first
\* event: nothing, or a call back into the manager for the id of the event
Reactions == {"", "removeRender", "createRender", "dispose"}

\* the subscriber's callback, run synchronously inside _renderDisposed$.next
React(s, reaction, unitId) ==
    CASE reaction = "removeRender" -> removeRender(s, unitId)
      [] reaction = "createRender" -> createRender(s, unitId)
      [] reaction = "dispose" -> dispose(s)
      [] OTHER -> s

\* _disposeItem with the subscriber listening: next() is the last statement of
\* _disposeItem, so the callback finds the manager as _disposeItem leaves it
DisposeItemObserved(s, item, shouldDestroyEngine, reaction) ==
    LET s1 == _disposeItem(s, item, shouldDestroyEngine)
    IN  IF item # Null /\ "_renderDisposed$" \notin s.completed
        THEN React(s1, reaction, s.units[item].unitId)
        ELSE s1

\* removeRender while the subscriber listens
removeRenderObserved(s, unitId, reaction) ==
    LET item == MapGet(s.renderMap, unitId)
        s1 == IF item # Null THEN DisposeItemObserved(s, item, TRUE, reaction) ELSE s
    IN  [s1 EXCEPT !.renderMap = MapDelete(@, unitId), !.subscriber = reaction]

\* createRender while the subscriber listens
createRenderObserved(s, unitId, reaction) ==
    LET engine == s.nextEngine
        s0 == [s EXCEPT !.nextEngine = @ + 1]
        existItem == getRenderById(s0, unitId)
        shouldDestroyEngine ==
            IF existItem # Null /\ s0.units[existItem].engine = engine THEN FALSE ELSE TRUE
        s1 == DisposeItemObserved(s0, existItem, shouldDestroyEngine, reaction)
        ref == Len(s1.units) + 1
        s2 == BuildUnit(s1, unitId, engine, ref, TRUE)
        s3 == [_addRenderUnit(s2, unitId, ref) EXCEPT !.ret = ref, !.subscriber = reaction]
    IN  SubjectNext(s3, "_renderCreated$", Obj("IRender", ref, unitId))

\* dispose() while the subscriber listens: Map.forEach visits the entries that
\* are in the Map when it reaches their place, so after the callback (at the
\* first entry) it goes on with the entries the callback left behind that entry
disposeObserved(s, reaction) ==
    IF s.renderMap = <<>> THEN [dispose(s) EXCEPT !.subscriber = reaction]
    ELSE
        LET first == s.renderMap[1]
            s1 == DisposeItemObserved([s EXCEPT !.disposed = TRUE], first.val, TRUE, reaction)
            rest == IF MapHas(s1.renderMap, first.key) THEN Tail(s1.renderMap) ELSE s1.renderMap
            s2 == DisposeItems(s1, rest, 1)
        IN  [s2 EXCEPT !.renderDependencies = <<>>,
                       !.renderMap = <<>>,
                       !.completed = @ \cup {"_currentRender$", "_renderCreated$", "_renderDisposed$"},
                       !.subscriber = reaction]

\* --------------------------------------------- a module that calls back

\* what the constructor of a module does, once, when it is instantiated for the
\* first time during a registration: nothing, or a call back into the manager
InjectionReactions == {"", "removeRender", "createRender"}

\* the index of the first entry of table m from place i on that the loop of a
\* register method injects into (a RenderUnit of the type), or 0
FirstInjected(s, m, type, i) ==
    IF \E j \in i..Len(m) : s.units[m[j].val].type = type /\ s.units[m[j].val].isRenderUnit
    THEN CHOOSE j \in i..Len(m) :
             /\ s.units[m[j].val].type = type /\ s.units[m[j].val].isRenderUnit
             /\ \A k \in i..(j - 1) :
                    ~(s.units[m[k].val].type = type /\ s.units[m[k].val].isRenderUnit)
    ELSE 0

\* the place in table m the iterator of the for-of loop stands at, when it stood
\* at entry i (key) before the table was changed: a Map keeps the place of a key
\* that is set again, appends a new key, and closes the gap of a deleted one
PlaceAfter(m, i, key) ==
    IF MapHas(m, key)
    THEN CHOOSE p \in 1..Len(m) : m[p].key = key
    ELSE i - 1

\* registerRenderModules where the constructor of deps[1] calls back when it is
\* instantiated for the first unit the loop injects into
registerRenderModulesObserved(s, type, deps, reaction, unitId) ==
    LET s1 == EnsureDependencies(s, type)
        dependencies == s1.renderDependencies[type]
        s2 == [s1 EXCEPT !.depArrays[dependencies] = @ \o deps, !.subscriber = reaction]
        i == FirstInjected(s2, s2.renderMap, type, 1)
    IN  IF i = 0 THEN toDisposable(InjectLive(s2, type, deps, 1), dependencies, deps)
        ELSE
            LET render == s2.renderMap[i].val
                sa == addRenderDependencies(s2, render, <<deps[1]>>)
                sb == React(sa, reaction, unitId)
                sc == addRenderDependencies(sb, render, Tail(deps))
                p == PlaceAfter(sc.renderMap, i, s2.renderMap[i].key)
                sd == InjectLive(sc, type, deps, p + 1)
            IN  toDisposable(sd, dependencies, deps)

\* ------------------------------------------- a disposal step that throws

\* the units a table holds
Live(m) == {m[i].val : i \in 1..Len(m)}

\* no object: every dispose() returns
NoObj == Obj("", 0, "")

\* the objects whose dispose() the disposal of unit item calls
StepsOf(s, item) ==
    {ComponentObj(item, s.units[item].components[i]) : i \in 1..Len(s.units[item].components)}
        \cup {SceneObj(s.units[item].scene), EngineObj(s.units[item].engine)}
        \cup (IF isDisposable(s.units[item]) THEN {UnitObj(item)} ELSE {})

\* a statement, while an exception thrown by an earlier one propagates: there
\* is no try, catch or finally in the class, so it is not executed
Try(s, after) == IF s.thrown THEN s ELSE after

\* x.dispose(), where the dispose() of the object failing throws
DisposeThrowing(s, obj, failing) ==
    Try(s, [Dispose(s, obj) EXCEPT !.thrown = (obj = failing)])

RECURSIVE DisposeComponentsThrowing(_, _, _, _, _)
DisposeComponentsThrowing(s, item, components, i, failing) ==
    IF i > Len(components) THEN s
    ELSE DisposeComponentsThrowing(
             DisposeThrowing(s, ComponentObj(item, components[i]), failing),
             item, components, i + 1, failing)

\* _disposeItem, statement by statement
DisposeItemThrowing(s, item, shouldDestroyEngine, failing) ==
    IF item = Null \/ s.thrown THEN s
    ELSE
        LET u == s.units[item]
            s1 == DisposeComponentsThrowing(s, item, u.components, 1, failing)
            s2 == DisposeThrowing(s1, SceneObj(u.scene), failing)
            s3 == IF isDisposable(u) THEN DisposeThrowing(s2, UnitObj(item), failing) ELSE s2
            s4 == IF shouldDestroyEngine
                  THEN DisposeThrowing(s3, EngineObj(u.engine), failing) ELSE s3
        IN  Try(s4, SubjectNext(s4, "_renderDisposed$", Obj("string", item, u.unitId)))

\* removeRender, statement by statement
removeRenderThrowing(s, unitId, failing) ==
    LET item == MapGet(s.renderMap, unitId)
        s1 == IF item # Null THEN DisposeItemThrowing(s, item, TRUE, failing) ELSE s
    IN  Try(s1, [s1 EXCEPT !.renderMap = MapDelete(@, unitId)])

RECURSIVE DisposeItemsThrowing(_, _, _, _)
DisposeItemsThrowing(s, items, i, failing) ==
    IF i > Len(items) THEN s
    ELSE DisposeItemsThrowing(DisposeItemThrowing(s, items[i].val, TRUE, failing),
                              items, i + 1, failing)

\* dispose(), statement by statement
disposeThrowing(s, failing) ==
    LET s1 == DisposeItemsThrowing([s EXCEPT !.disposed = TRUE], s.renderMap, 1, failing)
    IN  Try(s1, [s1 EXCEPT !.renderDependencies = <<>>,
                           !.renderMap = <<>>,
                           !.completed = @ \cup {"_currentRender$", "_renderCreated$",
                                                 "_renderDisposed$"}])

\* ------------------------------------------------------ TableGroupManager

\* the table groups of the environment: id, name and range of an ITableGroup
GroupIds == {"g1", "g2", "g3"}
GroupNames == {"first", "second"}
Ranges == {"A1:B2", "C3:D4"}
TableGroups == [id : GroupIds, name : GroupNames, range : Ranges]

\* no table group (undefined)
NoGroup == [id |-> "", name |-> "", range |-> ""]

\* the arrays of at most n elements of S
SeqsUpTo(S, n) == UNION {[1..k -> S] : k \in 0..n}

\* the data a TableGroupManager is constructed on
TableData == SeqsUpTo(TableGroups, MaxGroups)

\* Array.prototype.findIndex of the elements at the places hits, 1-based
\* (0 when none: -1 in the source)
FindIndex(hits) ==
    IF hits = {} THEN 0 ELSE CHOOSE i \in hits : \A j \in hits : i <= j

\* the smaller and the larger of two integers
Min(a, b) == IF a < b THEN a ELSE b
Max(a, b) == IF a > b THEN a ELSE b

\* Array.prototype.splice(start, deleteCount, ...items) with 0 <= start <= length:
\* deleteCount is clamped to what is there from start on
Splice(arr, start, deleteCount, items) ==
    LET count == Min(Max(deleteCount, 0), Len(arr) - start)
    IN  SubSeq(arr, 1, start) \o items \o SubSeq(arr, start + count + 1, Len(arr))

getTableGroups(groups) == groups

getGroupByRange(groups, range) ==
    LET idx == FindIndex({i \in 1..Len(groups) : groups[i].range = range})
    IN  IF idx = 0 THEN NoGroup ELSE groups[idx]

saveTableGroup(groups, tableGroup) ==
    LET idx == FindIndex({i \in 1..Len(groups) : groups[i].id = tableGroup.id})
    IN  IF idx > 0 THEN Splice(groups, idx - 1, 1, <<tableGroup>>)
        ELSE Append(groups, tableGroup)

deleteTableGroup(groups, tableGroup) ==
    LET idx == FindIndex({i \in 1..Len(groups) : groups[i].id = tableGroup.id})
    IN  IF idx > 0 THEN Splice(groups, idx - 1, 1, <<>>) ELSE groups

deleteAll(groups) ==
    IF Len(groups) > 0 THEN Splice(groups, 0, Len(groups) - 1, <<>>) ELSE groups

\* ----------------------------------------------------- CanvasPopupService

\* the popups callers add, and the ids Tools.generateRandomId() may return
\* (random: an id that is in the map already is not excluded)
Popups == {"popup1", "popup2"}
PopupIds == {"id1", "id2", "id3"}

\* the service's state as one value, at the start of a method call
PopupState ==
    [popupMap |-> popupMap, value |-> popupsValue, completed |-> popupsCompleted,
     disposed |-> popupDisposed, emitted |-> <<>>, ret |-> ""]

\* Array.from(map.entries()): the [key, value] pairs in insertion order
Entries(m) == [i \in 1..Len(m) |-> <<m[i].key, m[i].val>>]

\* get popups()
popups(p) == Entries(p.popupMap)

\* BehaviorSubject.next: emitted to the observers unless the subject is completed
BehaviorNext(p, v) ==
    IF p.completed THEN p
    ELSE [p EXCEPT !.value = v, !.emitted = Append(@, v)]

_update(p) == BehaviorNext(p, Entries(p.popupMap))

popupDispose(p) ==
    LET p1 == BehaviorNext([p EXCEPT !.disposed = TRUE], <<>>)
    IN  [p1 EXCEPT !.completed = TRUE, !.popupMap = <<>>]

\* mutant: the popup is put into the map without an update of the stream
AddPopupWithoutUpdate(p, item, id) ==
    [p EXCEPT !.popupMap = MapSet(@, id, item), !.ret = id]

\* addPopup(item), where Tools.generateRandomId() returns id
addPopup(p, item, id) ==
    [_update([p EXCEPT !.popupMap = MapSet(@, id, item)]) EXCEPT !.ret = id]

\* mutant: the stream is updated whether or not the id was in the map
RemovePopupAlwaysUpdates(p, id) ==
    _update([p EXCEPT !.popupMap = MapDelete(@, id)])

removePopup(p, id) ==
    IF MapHas(p.popupMap, id)
    THEN _update([p EXCEPT !.popupMap = MapDelete(@, id)])
    ELSE p

removeAll(p) == _update([p EXCEPT !.popupMap = <<>>])

\* ------------------------------------------------------------- the actions

\* no method of the CanvasPopupService has been called
NoPopupCall == [op |-> "", id |-> "", ret |-> "", emitted |-> <<>>]

\* a method call leaves the CanvasPopupService as p
PopupEffect(p, op, id) ==
    /\ popupMap' = p.popupMap
    /\ popupsValue' = p.value
    /\ popupsCompleted' = p.completed
    /\ popupDisposed' = p.disposed
    /\ popupCall' = [op |-> op, id |-> id, ret |-> p.ret, emitted |-> p.emitted]

AddPopup ==
    \E item \in Popups, id \in PopupIds :
        /\ PopupEffect(addPopup(PopupState, item, id), "addPopup", id)
        /\ UNCHANGED <<managerVars, tableVars>>

RemovePopup ==
    \E id \in PopupIds :
        /\ PopupEffect(removePopup(PopupState, id), "removePopup", id)
        /\ UNCHANGED <<managerVars, tableVars>>

RemoveAll ==
    /\ PopupEffect(removeAll(PopupState), "removeAll", "")
    /\ UNCHANGED <<managerVars, tableVars>>

PopupDispose ==
    /\ PopupEffect(popupDispose(PopupState), "dispose", "")
    /\ UNCHANGED <<managerVars, tableVars>>

\* no method of the TableGroupManager has been called
NoTableCall == [op |-> "", ret |-> NoGroup]

SaveTableGroup ==
    \E tableGroup \in TableGroups :
        /\ Len(saveTableGroup(tableGroups, tableGroup)) <= MaxGroups
        /\ tableGroups' = saveTableGroup(tableGroups, tableGroup)
        /\ tableCall' = [op |-> "saveTableGroup", ret |-> NoGroup]
        /\ UNCHANGED <<managerVars, popupVars>>

DeleteTableGroup ==
    \E tableGroup \in TableGroups :
        /\ tableGroups' = deleteTableGroup(tableGroups, tableGroup)
        /\ tableCall' = [op |-> "deleteTableGroup", ret |-> NoGroup]
        /\ UNCHANGED <<managerVars, popupVars>>

DeleteAll ==
    /\ tableGroups' = deleteAll(tableGroups)
    /\ tableCall' = [op |-> "deleteAll", ret |-> NoGroup]
    /\ UNCHANGED <<managerVars, popupVars>>

GetGroupByRange ==
    \E range \in Ranges :
        /\ tableCall' = [op |-> "getGroupByRange", ret |-> getGroupByRange(tableGroups, range)]
        /\ UNCHANGED <<tableGroups, managerVars, popupVars>>

\* no call is in progress
\* (ret: the IRender, engine or handle returned; retName: the module an IRender's
\* with() returned; retList: an array of IRender; retBool: a boolean)
NoCall ==
    [op |-> "", unitId |-> "", type |-> "", ret |-> Null, retName |-> "",
     retList |-> <<>>, retBool |-> FALSE, thrown |-> FALSE, subscriber |-> ""]

\* a method call leaves the manager as s; trace and lastCall are the call's
Effect(s, op, unitId, type) ==
    /\ renderMap' = s.renderMap
    /\ renderDependencies' = s.renderDependencies
    /\ depArrays' = s.depArrays
    /\ handles' = s.handles
    /\ currentUnitId' = s.currentUnitId
    /\ completed' = s.completed
    /\ units' = s.units
    /\ nextEngine' = s.nextEngine
    /\ defaultEngine' = s.defaultEngine
    /\ disposed' = s.disposed
    /\ disposeCalls' = s.disposeCalls
    /\ trace' = s.trace
    /\ lastCall' = [op |-> op, unitId |-> unitId, type |-> type, ret |-> s.ret,
                    retName |-> s.retName, retList |-> s.retList,
                    retBool |-> s.retBool, thrown |-> s.thrown,
                    subscriber |-> s.subscriber]
    /\ UNCHANGED <<tableVars, popupVars>>

\* a method is called when no call is in progress
Commit(s, op, unitId, type) ==
    /\ lastCall.op = ""
    /\ Effect(s, op, unitId, type)

CreateRender ==
    \E unitId \in UnitIds :
        /\ Len(units) < MaxUnits
        /\ Commit(createRender(State, unitId), "createRender", unitId, "")
        /\ UNCHANGED adds

RemoveRender ==
    \E unitId \in UnitIds :
        /\ Commit(removeRender(State, unitId), "removeRender", unitId, "")
        /\ UNCHANGED adds

Create ==
    \E unitId \in UnitIds :
        /\ Commit(create(State, unitId), "create", unitId, "")
        /\ UNCHANGED adds

SetCurrent ==
    \E unitId \in UnitIds :
        /\ Commit(setCurrent(State, unitId), "setCurrent", unitId, "")
        /\ UNCHANGED adds

\* addRender with an IRender the caller holds already (one createRender returned,
\* or one it added before)
AddRenderKnown ==
    \E unitId \in UnitIds, item \in 1..Len(units) :
        /\ adds < MaxAdds
        /\ Commit([addRender(State, unitId, item) EXCEPT !.ret = item], "addRender", unitId, "")
        /\ adds' = adds + 1

\* addRender with an IRender the caller constructs for the call, on an engine of
\* its own
AddRenderNew ==
    \E unitId \in UnitIds, isRenderUnit \in BOOLEAN :
        /\ adds < MaxAdds
        /\ Len(units) < MaxUnits
        /\ LET item == Len(units) + 1
               s == [State EXCEPT !.units = Append(@, ExternalUnit(unitId, nextEngine, item, isRenderUnit)),
                                  !.nextEngine = @ + 1]
           IN  Commit([addRender(s, unitId, item) EXCEPT !.ret = item], "addRender", unitId, "")
        /\ adds' = adds + 1

\* addRender with an IRender the caller constructs on an engine that exists: the
\* manager's defaultEngine or the engine of a unit (IRender.engine is public)
AddRenderShared ==
    \E unitId \in UnitIds, engine \in 1..(nextEngine - 1), isRenderUnit \in BOOLEAN :
        /\ adds < MaxAdds
        /\ Len(units) < MaxUnits
        /\ LET item == Len(units) + 1
               s == [State EXCEPT !.units = Append(@, ExternalUnit(unitId, engine, item, isRenderUnit))]
           IN  Commit([addRender(s, unitId, item) EXCEPT !.ret = item], "addRender", unitId, "")
        /\ adds' = adds + 1

\* a caller reads defaultEngine
DefaultEngine ==
    /\ Commit(getDefaultEngine(State), "defaultEngine", "", "")
    /\ UNCHANGED adds

\* the queries; lastCall.unitId of the two by-type queries is the id of the
\* current document of the type
GetRenderById ==
    \E unitId \in UnitIds :
        /\ Commit([State EXCEPT !.ret = getRenderById(State, unitId)], "getRenderById", unitId, "")
        /\ UNCHANGED adds

Has ==
    \E unitId \in UnitIds :
        /\ Commit([State EXCEPT !.retBool = has(State, unitId)], "has", unitId, "")
        /\ UNCHANGED adds

GetCurrent ==
    /\ Commit(getCurrent(State), "getCurrent", "", "")
    /\ UNCHANGED adds

GetFirst ==
    /\ Commit(getFirst(State), "getFirst", "", "")
    /\ UNCHANGED adds

GetCurrentTypeOfRenderer ==
    \E type \in RegisterTypes, current \in UnitIds \cup {""} :
        /\ current \in CurrentUnitsForType(type)
        /\ Commit(getCurrentTypeOfRenderer(State, type, current),
                  "getCurrentTypeOfRenderer", current, type)
        /\ UNCHANGED adds

WithCurrentTypeOfUnit ==
    \E type \in RegisterTypes, current \in UnitIds \cup {""}, id \in Dependencies :
        /\ current \in CurrentUnitsForType(type)
        /\ Commit(withCurrentTypeOfUnit(State, type, current, id),
                  "withCurrentTypeOfUnit", current, type)
        /\ UNCHANGED adds

GetAllRenderersOfType ==
    \E type \in RegisterTypes :
        /\ Commit(getAllRenderersOfType(State, type), "getAllRenderersOfType", "", type)
        /\ UNCHANGED adds

RegisterRenderModules ==
    \E type \in RegisterTypes, deps \in DepLists :
        /\ Len(handles) < MaxRegs
        /\ Commit(registerRenderModules(State, type, deps), "registerRenderModules", "", type)
        /\ UNCHANGED adds

RegisterRenderModule ==
    \E type \in RegisterTypes, ctor \in Dependencies :
        /\ Len(handles) < MaxRegs
        /\ Commit(registerRenderModule(State, type, ctor), "registerRenderModule", "", type)
        /\ UNCHANGED adds

\* the register methods, where several registrations are made one after another
RegisterRenderModulesNext ==
    \E type \in RegisterTypes, deps \in DepLists :
        /\ Len(handles) < MaxHandles
        /\ Commit(registerRenderModules(State, type, deps), "registerRenderModules", "", type)
        /\ UNCHANGED adds

RegisterRenderModuleNext ==
    \E type \in RegisterTypes, ctor \in Dependencies :
        /\ Len(handles) < MaxHandles
        /\ Commit(registerRenderModule(State, type, ctor), "registerRenderModule", "", type)
        /\ UNCHANGED adds

HandleDispose ==
    \E h \in 1..Len(handles) :
        /\ Commit([handleDispose(State, h) EXCEPT !.ret = h], "handle.dispose", "", "")
        /\ UNCHANGED adds

ManagerDispose ==
    /\ Commit(dispose(State), "dispose", "", "")
    /\ UNCHANGED adds

\* dispose() is called again right after dispose(), nothing in between
ManagerDisposeAgain ==
    /\ lastCall.op = "dispose"
    /\ Effect(dispose(State), "dispose again", "", "")
    /\ UNCHANGED adds

\* the methods called while a subscriber of disposed$ calls back (lastCall.subscriber)
CreateRenderObserved ==
    \E unitId \in UnitIds, reaction \in Reactions :
        /\ Len(units) < MaxUnits
        /\ Commit(createRenderObserved(State, unitId, reaction), "createRender", unitId, "")
        /\ UNCHANGED adds

RemoveRenderObserved ==
    \E unitId \in UnitIds, reaction \in Reactions :
        /\ reaction = "createRender" => Len(units) < MaxUnits
        /\ Commit(removeRenderObserved(State, unitId, reaction), "removeRender", unitId, "")
        /\ UNCHANGED adds

DisposeObserved ==
    \E reaction \in Reactions :
        /\ reaction = "createRender" => Len(units) < MaxUnits
        /\ Commit(disposeObserved(State, reaction), "dispose", "", "")
        /\ UNCHANGED adds

\* registerRenderModules with modules whose constructor calls back
RegisterRenderModulesObserved ==
    \E type \in RegisterTypes, deps \in DepLists :
        \E reaction \in InjectionReactions, unitId \in UnitIds :
            /\ Len(handles) < MaxRegs
            /\ reaction = "createRender" => Len(units) < MaxUnits
            /\ Commit(registerRenderModulesObserved(State, type, deps, reaction, unitId),
                      "registerRenderModules", unitId, type)
            /\ UNCHANGED adds

\* the objects of the units in the table whose dispose() may throw in the next
\* call: those that have not been disposed yet (which keeps the calls finite)
MayThrow ==
    {obj \in UNION {StepsOf(State, u) : u \in Live(renderMap)} : ~BagIn(obj, disposeCalls)}

\* removeRender of a unit one of whose disposal steps may throw
RemoveRenderThrowing ==
    \E unitId \in UnitIds :
        \E failing \in {NoObj} \cup MayThrow :
            /\ Commit(removeRenderThrowing(State, unitId, failing), "removeRender", unitId, "")
            /\ UNCHANGED adds

\* dispose() of the manager, where a disposal step of one of its units may throw
ManagerDisposeThrowing ==
    \E failing \in {NoObj} \cup MayThrow :
        /\ ~disposed
        /\ Commit(disposeThrowing(State, failing), "dispose", "", "")
        /\ UNCHANGED adds

\* the call returns: what it did and returned is the caller's from here on
Return ==
    /\ lastCall.op # ""
    /\ lastCall' = NoCall
    /\ trace' = <<>>
    /\ UNCHANGED <<renderMap, renderDependencies, depArrays, handles, currentUnitId,
                   completed, units, nextEngine, defaultEngine, disposed, adds,
                   disposeCalls>>
    /\ UNCHANGED <<tableVars, popupVars>>

\* new RenderManagerService(injector, univerInstanceService)
InitManager ==
    /\ renderMap = <<>>
    /\ renderDependencies = <<>>
    /\ depArrays = <<>>
    /\ handles = <<>>
    /\ currentUnitId = ""
    /\ completed = {}
    /\ units = <<>>
    /\ nextEngine = 1
    /\ defaultEngine = Null
    /\ disposed = FALSE
    /\ adds = 0
    /\ disposeCalls = EmptyBag
    /\ trace = <<>>
    /\ lastCall = NoCall

\* new TableGroupManager(config, data)
InitTableGroups(data) ==
    /\ tableGroups = data
    /\ tableCall = NoTableCall

\* new CanvasPopupService()
InitPopups ==
    /\ popupMap = <<>>
    /\ popupsValue = <<>>
    /\ popupsCompleted = FALSE
    /\ popupDisposed = FALSE
    /\ popupCall = NoPopupCall

Init ==
    /\ InitManager
    /\ InitTableGroups(<<>>)
    /\ InitPopups

\* a TableGroupManager constructed on any data (the manager service is idle)
InitTables ==
    /\ InitManager
    /\ \E data \in TableData : InitTableGroups(data)
    /\ InitPopups

Next ==
    \/ CreateRender
    \/ AddRenderKnown
    \/ AddRenderNew
    \/ RemoveRender
    \/ ManagerDispose
    \/ SetCurrent
    \/ Return

\* the unit table, the disposal protocol, the events and the current-unit pointer
Spec == Init /\ [][Next]_vars

NextModules ==
    \/ CreateRender
    \/ RemoveRender
    \/ RegisterRenderModules
    \/ RegisterRenderModule
    \/ HandleDispose
    \/ ManagerDispose
    \/ ManagerDisposeAgain
    \/ Return

\* the module registry over the units createRender makes
SpecModules == Init /\ [][NextModules]_vars

NextFull ==
    \/ CreateRender
    \/ AddRenderKnown
    \/ AddRenderNew
    \/ RemoveRender
    \/ ManagerDispose
    \/ SetCurrent
    \/ RegisterRenderModules
    \/ RegisterRenderModule
    \/ HandleDispose
    \/ Return

\* every method together
SpecFull == Init /\ [][NextFull]_vars

NextEngines ==
    \/ CreateRender
    \/ AddRenderNew
    \/ AddRenderShared
    \/ RemoveRender
    \/ DefaultEngine
    \/ ManagerDispose
    \/ Return

\* the engines: those createRender constructs, the default engine, and the
\* engines of the units callers add
SpecEngines == Init /\ [][NextEngines]_vars

NextScan ==
    \/ CreateRender
    \/ AddRenderKnown
    \/ AddRenderNew
    \/ RemoveRender
    \/ GetAllRenderersOfType
    \/ Return

\* the scan by type over the tables createRender, addRender and removeRender make
SpecScan == Init /\ [][NextScan]_vars

NextObserved ==
    \/ CreateRenderObserved
    \/ RemoveRenderObserved
    \/ DisposeObserved
    \/ Return

\* createRender, removeRender and dispose() with a subscriber of disposed$ that
\* calls back into the manager
SpecObserved == Init /\ [][NextObserved]_vars

NextRegistry ==
    \/ RegisterRenderModulesNext
    \/ RegisterRenderModuleNext
    \/ HandleDispose
    \/ Return

\* several registrations and their handles
SpecRegistry == Init /\ [][NextRegistry]_vars

NextThrowing ==
    \/ CreateRender
    \/ RemoveRenderThrowing
    \/ ManagerDisposeThrowing
    \/ Return

\* disposal where a dispose() of a component, scene, unit or engine may throw
SpecThrowing == Init /\ [][NextThrowing]_vars

NextInjection ==
    \/ CreateRender
    \/ RemoveRender
    \/ RegisterRenderModulesObserved
    \/ Return

\* registrations of modules that call back into the manager
SpecInjection == Init /\ [][NextInjection]_vars

NextCovered ==
    \/ CreateRender
    \/ RemoveRender
    \/ RegisterRenderModulesNext
    \/ RegisterRenderModuleNext
    \/ HandleDispose
    \/ Return

\* units made and removed while modules are registered and retracted
SpecCovered == Init /\ [][NextCovered]_vars

NextCurrent ==
    \/ CreateRender
    \/ AddRenderKnown
    \/ RemoveRender
    \/ Create
    \/ SetCurrent
    \/ GetCurrent
    \/ RegisterRenderModules
    \/ RegisterRenderModule
    \/ Return

\* the current-unit pointer among the operations that do not set it
SpecCurrent == Init /\ [][NextCurrent]_vars

NextTables ==
    \/ SaveTableGroup
    \/ DeleteTableGroup
    \/ DeleteAll
    \/ GetGroupByRange

\* the TableGroupManager, constructed on any data
SpecTables == InitTables /\ [][NextTables]_vars

NextPopups ==
    \/ AddPopup
    \/ RemovePopup
    \/ RemoveAll
    \/ PopupDispose

\* the CanvasPopupService
SpecPopups == Init /\ [][NextPopups]_vars

NextQueries ==
    \/ CreateRender
    \/ RemoveRender
    \/ SetCurrent
    \/ RegisterRenderModule
    \/ GetRenderById
    \/ Has
    \/ GetCurrent
    \/ GetFirst
    \/ GetCurrentTypeOfRenderer
    \/ WithCurrentTypeOfUnit
    \/ Return

\* the queries over the tables createRender, removeRender and setCurrent make
SpecQueries == Init /\ [][NextQueries]_vars

\* ------------------------------------------------- reading a call's trace

\* how often the call disposed obj
DisposesOf(tr, obj) ==
    Cardinality({i \in 1..Len(tr) : tr[i].call = "dispose" /\ tr[i].obj = obj})

\* the positions at which the call published on subject, delivered or not
NextsOn(tr, subject) == {i \in 1..Len(tr) : tr[i].call = subject}

\* the positions at which subscribers of subject were delivered an event
DeliveredOn(tr, subject) == {i \in NextsOn(tr, subject) : tr[i].delivered}

\* the positions of the disposal steps and "disposed" publications
DisposalSteps(tr) == {i \in 1..Len(tr) : tr[i].call \in {"dispose", "_renderDisposed$"}}

\* no key twice
Unique(m) == \A i, j \in 1..Len(m) : m[i].key = m[j].key => i = j

\* the disposal protocol ran once on unit old of heap us in the call with trace tr,
\* apart from the engine
RanOnce(tr, us, old) ==
    /\ DisposesOf(tr, SceneObj(us[old].scene)) = 1
    /\ \A i \in 1..Len(us[old].components) :
           DisposesOf(tr, ComponentObj(old, us[old].components[i])) = 1
    /\ DisposesOf(tr, UnitObj(old)) = (IF us[old].disposable THEN 1 ELSE 0)
    /\ Cardinality({i \in NextsOn(tr, "_renderDisposed$") : tr[i].obj.ref = old}) = 1

\* ------------------------------------------------------------------ claims

\* C1: the table never holds two entries for one unit id, and a createRender(id)
\* on an id that has an entry runs the disposal protocol on the previous unit
\* while the table still maps id to it, after which the table maps id to the
\* new unit (a new object) and every other entry is as before.
C1_UniqueAndReplaced ==
    /\ [](Unique(renderMap))
    /\ [][lastCall'.op = "createRender" =>
            LET id == lastCall'.unitId
                old == MapGet(renderMap, id)
                new == lastCall'.ret
            IN  /\ new \notin 1..Len(units) /\ new \in 1..Len(units')
                /\ MapGet(renderMap', id) = new
                /\ Cardinality({i \in 1..Len(renderMap') : renderMap'[i].key = id}) = 1
                /\ \A k \in UnitIds \ {id} : MapGet(renderMap', k) = MapGet(renderMap, k)
                /\ old # Null =>
                       /\ RanOnce(trace', units, old)
                       /\ \A i \in DisposalSteps(trace') :
                              /\ MapGet(trace'[i].table, id) = old
                              /\ trace'[i].obj.ref \in {old, units[old].scene, units[old].engine}
                /\ old = Null => DisposalSteps(trace') = {}]_vars

\* C1 witness: a createRender replaced the unit of its id
C1_Witness ==
    /\ lastCall.op = "createRender"
    /\ DisposalSteps(trace) # {}
    /\ Len(renderMap) >= 1

\* C2: a createRender(id) that replaces a unit createRender made disposes that
\* unit's scene and each of its components exactly once, and destroys its
\* engine exactly when the new unit is not on the same engine: createRender
\* brings a new engine, so it destroys the old one; the create-or-replace path
\* given the old unit's own engine disposes scene and components and keeps
\* the engine.
C2_ReplacementSafety ==
    /\ [][(/\ lastCall'.op = "createRender"
           /\ MapGet(renderMap, lastCall'.unitId) # Null
           /\ units[MapGet(renderMap, lastCall'.unitId)].origin = "createRender") =>
               LET old == MapGet(renderMap, lastCall'.unitId)
                   new == lastCall'.ret
                   scene == SceneObj(units[old].scene)
                   engine == EngineObj(units[old].engine)
               IN  /\ DisposesOf(trace', scene) = 1
                   /\ CopiesIn(scene, disposeCalls') = CopiesIn(scene, disposeCalls) + 1
                   /\ \A i \in 1..Len(units[old].components) :
                          LET component == ComponentObj(old, units[old].components[i])
                          IN  /\ DisposesOf(trace', component) = 1
                              /\ CopiesIn(component, disposeCalls') =
                                     CopiesIn(component, disposeCalls) + 1
                   /\ DisposesOf(trace', engine) =
                          (IF units'[new].engine = units[old].engine THEN 0 ELSE 1)
                   /\ units'[new].engine # units[old].engine]_vars
    /\ [](\A id \in UnitIds :
              (lastCall.op = "" /\ has(State, id)
                   /\ units[getRenderById(State, id)].origin = "createRender") =>
                  LET old == getRenderById(State, id)
                      reused == _createRender(State, id, units[old].engine, TRUE)
                  IN  /\ DisposesOf(reused.trace, EngineObj(units[old].engine)) = 0
                      /\ DisposesOf(reused.trace, SceneObj(units[old].scene)) = 1
                      /\ \A i \in 1..Len(units[old].components) :
                             DisposesOf(reused.trace,
                                        ComponentObj(old, units[old].components[i])) = 1)

\* C2 witness: the second createRender("doc1") disposed the two components and
\* the engine of the first unit
C2_Witness ==
    /\ lastCall.op = "createRender"
    /\ \E i \in NextsOn(trace, "_renderDisposed$") :
           LET old == trace[i].obj.ref
           IN  /\ units[old].origin = "createRender"
               /\ Len(units[old].components) = 2
               /\ DisposesOf(trace, EngineObj(units[old].engine)) = 1
               /\ units[lastCall.ret].engine # units[old].engine

\* C3: removeRender(id) on an id the table does not hold calls no collaborator
\* (so nothing can throw), publishes nothing, and leaves the table, the
\* registry and the current-unit pointer as they were.
C3_RemoveAbsent ==
    [][(lastCall'.op = "removeRender" /\ ~MapHas(renderMap, lastCall'.unitId)) =>
            /\ trace' = <<>>
            /\ renderMap' = renderMap
            /\ renderDependencies' = renderDependencies
            /\ depArrays' = depArrays
            /\ currentUnitId' = currentUnitId
            /\ units' = units
            /\ disposeCalls' = disposeCalls]_vars

\* C3 witness: removeRender of an absent id, with a unit in the table, modules
\* registered and a current unit set
C3_Witness ==
    /\ lastCall.op = "removeRender"
    /\ trace = <<>>
    /\ renderMap # <<>>
    /\ currentUnitId # ""
    /\ \E type \in DOMAIN renderDependencies : depArrays[renderDependencies[type]] # <<>>

\* C4 as stated: removeRender(id) on an id the table holds runs the protocol
\* once, delivers exactly one "disposed" event whose payload is id, removes the
\* entry and leaves the other entries.
C4_Original ==
    [][(lastCall'.op = "removeRender" /\ MapHas(renderMap, lastCall'.unitId)) =>
            LET id == lastCall'.unitId
                item == MapGet(renderMap, id)
            IN  /\ RanOnce(trace', units, item)
                /\ DisposesOf(trace', EngineObj(units[item].engine)) = 1
                /\ Cardinality(DeliveredOn(trace', "_renderDisposed$")) = 1
                /\ \A i \in DeliveredOn(trace', "_renderDisposed$") : trace'[i].obj.key = id
                /\ ~MapHas(renderMap', id)
                /\ \A k \in UnitIds \ {id} : MapGet(renderMap', k) = MapGet(renderMap, k)]_vars

\* C4 amended: removeRender(id) on an id the table holds runs the protocol once
\* on that unit, engine included; it publishes "disposed" once, with the unit's
\* own unitId (which is id unless the unit was put under id by addRender), and
\* the event is delivered unless dispose() completed the stream before; the
\* entry is removed and every other entry is as before.
C4_RemovePresent ==
    [][(lastCall'.op = "removeRender" /\ MapHas(renderMap, lastCall'.unitId)) =>
            LET id == lastCall'.unitId
                item == MapGet(renderMap, id)
            IN  /\ RanOnce(trace', units, item)
                /\ DisposesOf(trace', EngineObj(units[item].engine)) = 1
                /\ Len(trace') = Len(units[item].components) + 3
                                    + (IF units[item].disposable THEN 1 ELSE 0)
                /\ Cardinality(NextsOn(trace', "_renderDisposed$")) = 1
                /\ Cardinality(DeliveredOn(trace', "_renderDisposed$")) =
                       (IF "_renderDisposed$" \in completed THEN 0 ELSE 1)
                /\ \A i \in NextsOn(trace', "_renderDisposed$") :
                       /\ trace'[i].obj.key = units[item].unitId
                       /\ units[item].added = 0 => trace'[i].obj.key = id
                /\ ~MapHas(renderMap', id)
                /\ \A k \in UnitIds \ {id} : MapGet(renderMap', k) = MapGet(renderMap, k)]_vars

\* C4 witness: a removeRender disposed a unit, the event was delivered, and
\* another entry stayed in the table
C4_Witness ==
    /\ lastCall.op = "removeRender"
    /\ DeliveredOn(trace, "_renderDisposed$") # {}
    /\ renderMap # <<>>
    /\ ~MapHas(renderMap, lastCall.unitId)

\* C5: when dispose() returns, the unit table and the module registry are empty.
C5_DisposeEmpties ==
    lastCall.op = "dispose" =>
        /\ renderMap = <<>>
        /\ DOMAIN renderDependencies = {}
        /\ \A type \in RegisterTypes : _getRenderControllersForType(State, type) = <<>>

\* C5 witness: dispose() returned after it disposed units, with a registration
\* whose modules were in the registry
C5_Witness ==
    /\ lastCall.op = "dispose"
    /\ DisposalSteps(trace) # {}
    /\ \E h \in 1..Len(handles) :
           ~handles[h].disposed /\ depArrays[handles[h].dependencies] # <<>>

\* how often the disposal protocol has run on unit u of heap us, ever, by the
\* bag calls of dispose() calls
Runs(calls, us, u) == CopiesIn(SceneObj(us[u].scene), calls)

\* C6 as stated: after dispose(), every unit that was in the table before the
\* call has had the disposal protocol run exactly once over the whole history.
C6_Original ==
    [][lastCall'.op = "dispose" =>
            \A u \in Live(renderMap) : Runs(disposeCalls', units', u) = 1]_vars

\* C6 amended: after dispose(), every unit that was in the table before the call
\* has had the disposal protocol run at least once, once in this call for each
\* entry that held it, engine included; and exactly once over the whole history
\* if the unit was put into the table only once (by the createRender that made
\* it, or by a single addRender of a unit made outside).
C6_TeardownComplete ==
    [][lastCall'.op = "dispose" =>
            \A u \in Live(renderMap) :
                /\ Runs(disposeCalls', units', u) >= 1
                /\ Cardinality({i \in NextsOn(trace', "_renderDisposed$") : trace'[i].obj.ref = u})
                       = Cardinality({i \in 1..Len(renderMap) : renderMap[i].val = u})
                /\ DisposesOf(trace', EngineObj(units[u].engine)) >= 1
                /\ (IF units[u].origin = "createRender" THEN 1 ELSE 0) + units[u].added = 1 =>
                       /\ Runs(disposeCalls', units', u) = 1
                       /\ RanOnce(trace', units, u)
                       /\ \A i \in 1..Len(units[u].components) :
                              CopiesIn(ComponentObj(u, units[u].components[i]), disposeCalls') = 1
                       /\ CopiesIn(UnitObj(u), disposeCalls') =
                              (IF units[u].disposable THEN 1 ELSE 0)]_vars

\* C6 witness: dispose() disposed two units, one made by createRender and one
\* given to addRender
C6_Witness ==
    /\ lastCall.op = "dispose"
    /\ trace # <<>>
    /\ \E u, v \in Live(trace[1].table) :
           /\ units[u].origin = "createRender" /\ units[u].added = 0
           /\ units[v].origin = "external" /\ units[v].added = 1
           /\ Runs(disposeCalls, units, u) = 1 /\ Runs(disposeCalls, units, v) = 1

\* C7: createRender publishes "created" once, with the unit it returns, and at
\* that moment the table already maps the id to that unit.
C7_CreatedAfterInsert ==
    lastCall.op = "createRender" =>
        /\ Cardinality(NextsOn(trace, "_renderCreated$")) = 1
        /\ \A i \in NextsOn(trace, "_renderCreated$") :
               /\ trace[i].obj.ref = lastCall.ret
               /\ MapGet(trace[i].table, lastCall.unitId) = trace[i].obj.ref
               /\ trace[i].obj.ref \in Live(trace[i].table)
               /\ trace[i].table = renderMap
               /\ i = Len(trace)

\* C7 witness: a createRender delivered "created" for a unit that replaced another
C7_Witness ==
    /\ lastCall.op = "createRender"
    /\ DeliveredOn(trace, "_renderCreated$") # {}
    /\ DisposalSteps(trace) # {}
    /\ Len(renderMap) = 2

Count(seq, x) == Cardinality({i \in 1..Len(seq) : seq[i] = x})

RECURSIVE InForce(_, _, _)
\* how often module m is registered for type by the registrations 1..h whose
\* handle was not invoked and whose array is the registry's array for type
InForce(type, m, h) ==
    IF h = 0 THEN 0
    ELSE InForce(type, m, h - 1) +
         (IF /\ ~handles[h].disposed
             /\ type \in DOMAIN renderDependencies
             /\ handles[h].dependencies = renderDependencies[type]
          THEN Count(handles[h].deps, m) ELSE 0)

\* C9: invoking a registration's handle changes no unit (the injected modules
\* of every unit stay) and no table entry; a RenderUnit createRender makes is
\* seeded with each module as often as the registrations in force for its type
\* name it, so with none of a registration whose handle was invoked.
C9_HandleDoesNotRetract ==
    /\ [][lastCall'.op = "handle.dispose" =>
              /\ units' = units
              /\ renderMap' = renderMap
              /\ trace' = <<>>]_vars
    /\ []((lastCall.op = "createRender" /\ getUnit(lastCall.unitId)) =>
              \A m \in Dependencies :
                  Count(units[lastCall.ret].injected, m) =
                      InForce(getUnitType(lastCall.unitId), m, Len(handles)))

\* C9 witness: a unit made after the handle was invoked has no module, while
\* the unit that was injected before keeps its modules
C9_Witness ==
    /\ lastCall.op = "createRender"
    /\ units[lastCall.ret].injected = <<>>
    /\ units[lastCall.ret].isRenderUnit
    /\ \E h \in 1..Len(handles) :
           /\ handles[h].disposed
           /\ units[lastCall.ret].type \in DOMAIN renderDependencies
           /\ handles[h].dependencies = renderDependencies[units[lastCall.ret].type]
           /\ \E u \in Live(renderMap) : units[u].injected = handles[h].deps

\* C10: createRender(id) for an id without a document returns and stores a
\* stub: isThumbNail, no components, no main component, nothing injected, and
\* with() null for every module.
C10_ThumbNailStub ==
    (lastCall.op = "createRender" /\ ~getUnit(lastCall.unitId)) =>
        LET renderer == lastCall.ret
        IN  /\ getRenderById(State, lastCall.unitId) = renderer
            /\ units[renderer].unitId = lastCall.unitId
            /\ units[renderer].isThumbNail
            /\ units[renderer].components = <<>>
            /\ units[renderer].mainComponent = ""
            /\ units[renderer].injected = <<>>
            /\ \A dependency \in Dependencies : With(State, renderer, dependency) = ""

\* C10 witness: createRender("thumb1") with modules registered for the slide type
C10_Witness ==
    /\ lastCall.op = "createRender"
    /\ lastCall.unitId = "thumb1"
    /\ units[lastCall.ret].isThumbNail
    /\ _getRenderControllersForType(State, "UNIVER_SLIDE") # <<>>

\* C11: the engine of the unit createRender returns is constructed in the call:
\* it is not the engine of any IRender that exists (in the table, removed from
\* it, or built by a caller for addRender), not the manager's defaultEngine and
\* not any engine constructed before.
C11_FreshEngine ==
    [][lastCall'.op = "createRender" =>
            LET engine == units'[lastCall'.ret].engine
            IN  /\ \A u \in 1..Len(units) : units[u].engine # engine
                /\ defaultEngine # Null => engine # defaultEngine
                /\ defaultEngine' # Null => engine # defaultEngine'
                /\ engine \notin 1..(nextEngine - 1)
                /\ units'[lastCall'.ret].origin = "createRender"]_vars

\* C11 witness: createRender returned a unit while the default engine exists and
\* a unit a caller built on the default engine is in the table
C11_Witness ==
    /\ lastCall.op = "createRender"
    /\ defaultEngine # Null
    /\ \E i \in 1..Len(renderMap) :
           /\ units[renderMap[i].val].origin = "external"
           /\ units[renderMap[i].val].engine = defaultEngine

\* C12: addRender(id, unit) makes the table map id to unit and does nothing
\* else: no dispose call on anything, no event on any stream, no module injected
\* into any unit, every other entry, the registry and the current id as before.
\* (lastCall.ret of an addRender is the unit that was passed.)
C12_AddRenderOnlyInserts ==
    [][lastCall'.op = "addRender" =>
            LET id == lastCall'.unitId
                item == lastCall'.ret
            IN  /\ MapGet(renderMap', id) = item
                /\ Unique(renderMap')
                /\ \A k \in UnitIds \ {id} : MapGet(renderMap', k) = MapGet(renderMap, k)
                /\ trace' = <<>>
                /\ disposeCalls' = disposeCalls
                /\ \A u \in 1..Len(units) : units'[u].injected = units[u].injected
                /\ units'[item].injected = (IF item \in 1..Len(units) THEN units[item].injected ELSE <<>>)
                /\ currentUnitId' = currentUnitId
                /\ renderDependencies' = renderDependencies
                /\ depArrays' = depArrays
                /\ completed' = completed]_vars

\* C12 witness: addRender put a RenderUnit a caller built in the place of the
\* unit createRender had made for the id, while modules are registered for its type
C12_Witness ==
    /\ lastCall.op = "addRender"
    /\ units[lastCall.ret].origin = "external"
    /\ units[lastCall.ret].isRenderUnit
    /\ _getRenderControllersForType(State, units[lastCall.ret].type) # <<>>
    /\ \E u \in 1..Len(units) :
           /\ u # lastCall.ret
           /\ units[u].unitId = lastCall.unitId
           /\ units[u].origin = "createRender"
           /\ units[u].injected # <<>>
           /\ u \notin Live(renderMap)
    /\ disposeCalls = EmptyBag

\* C13: setCurrent(unitId) sets the current id and hands unitId to the
\* current-unit stream once, whether or not the table has an entry for unitId
\* (the stream delivers it unless dispose() has completed the stream); the call
\* disposes nothing, changes no table entry, and getCurrent() then returns the
\* table's entry for unitId, or absent when there is none.
C13_SetCurrentAlwaysPublishes ==
    [][lastCall'.op = "setCurrent" =>
            LET unitId == lastCall'.unitId
            IN  /\ ~lastCall'.thrown
                /\ Len(trace') = 1
                /\ trace'[1].call = "_currentRender$"
                /\ trace'[1].obj.key = unitId
                /\ trace'[1].delivered = ("_currentRender$" \notin completed)
                /\ renderMap' = renderMap
                /\ units' = units
                /\ currentUnitId' = unitId
                /\ getCurrent(State').ret = MapGet(renderMap, unitId)
                /\ ~MapHas(renderMap, unitId) => getCurrent(State').ret = Null]_vars

\* C13 witness: setCurrent was called with an id the table has no entry for,
\* while the table has an entry for another id, and the event was delivered
C13_Witness ==
    /\ lastCall.op = "setCurrent"
    /\ ~MapHas(renderMap, lastCall.unitId)
    /\ renderMap # <<>>
    /\ currentUnitId = lastCall.unitId
    /\ trace[1].delivered

\* the queries of the manager
Queries ==
    {"getRenderById", "has", "getCurrent", "getFirst", "getCurrentTypeOfRenderer",
     "withCurrentTypeOfUnit"}

\* C14: a query never throws, makes no collaborator call and changes nothing of
\* the manager; it returns absent (has: false) when the table has no entry for
\* the id asked for, for the current id, for the current document of the type,
\* when no document of the type is current, or when the table is empty.
C14_AbsenceIsAValue ==
    [][lastCall'.op \in Queries =>
            LET op == lastCall'.op
                id == lastCall'.unitId
                ret == lastCall'.ret
            IN  /\ ~lastCall'.thrown
                /\ trace' = <<>>
                /\ UNCHANGED <<renderMap, renderDependencies, depArrays, handles,
                               currentUnitId, completed, units, disposeCalls>>
                /\ (op = "getRenderById" /\ ~MapHas(renderMap, id)) => ret = Null
                /\ (op = "has" /\ ~MapHas(renderMap, id)) => lastCall'.retBool = FALSE
                /\ (op = "getCurrent" /\ ~MapHas(renderMap, currentUnitId)) => ret = Null
                /\ (op = "getFirst" /\ renderMap = <<>>) => ret = Null
                /\ (op = "getCurrentTypeOfRenderer" /\ (id = "" \/ ~MapHas(renderMap, id)))
                       => ret = Null
                /\ (op = "withCurrentTypeOfUnit" /\ (id = "" \/ ~MapHas(renderMap, id)))
                       => lastCall'.retName = ""]_vars

\* C14 witness: withCurrentTypeOfUnit returned absent for a current document
\* that has no render unit, while another document's unit holds modules
C14_Witness ==
    /\ lastCall.op = "withCurrentTypeOfUnit"
    /\ lastCall.unitId # ""
    /\ ~MapHas(renderMap, lastCall.unitId)
    /\ lastCall.retName = ""
    /\ \E i \in 1..Len(renderMap) : units[renderMap[i].val].injected # <<>>

\* C15: once dispose() has returned, no call delivers an event to the
\* subscribers of the "created" or of the "disposed" stream, whichever method is
\* called and whatever it publishes.
C15_NoEventAfterDispose ==
    [][disposed =>
            /\ DeliveredOn(trace', "_renderCreated$") = {}
            /\ DeliveredOn(trace', "_renderDisposed$") = {}]_vars

\* C15 witness: after dispose(), a unit was created and removed again; the
\* removal published "disposed" and nobody was delivered it
C15_Witness ==
    /\ disposed
    /\ lastCall.op = "removeRender"
    /\ NextsOn(trace, "_renderDisposed$") # {}
    /\ DeliveredOn(trace, "_renderDisposed$") = {}

\* C16: a dispose() called right after a dispose() makes no dispose call on any
\* component, scene, unit or engine, publishes and delivers no event, does not
\* throw, and leaves the table and the registry empty as they were.
C16_DisposeIdempotent ==
    [][lastCall'.op = "dispose again" =>
            /\ ~lastCall'.thrown
            /\ trace' = <<>>
            /\ disposeCalls' = disposeCalls
            /\ renderMap = <<>> /\ renderMap' = <<>>
            /\ renderDependencies = <<>> /\ renderDependencies' = <<>>
            /\ UNCHANGED <<units, completed, disposed, depArrays, handles, currentUnitId>>]_vars

\* C16 witness: the second dispose() returned, after a first one that disposed
\* a unit holding registered modules
C16_Witness ==
    /\ lastCall.op = "dispose again"
    /\ handles # <<>>
    /\ \E u \in 1..Len(units) :
           /\ units[u].injected # <<>>
           /\ CopiesIn(SceneObj(units[u].scene), disposeCalls) = 1
           /\ CopiesIn(EngineObj(units[u].engine), disposeCalls) = 1

\* the units of heap us a caller built on an engine that is not the engine of a
\* unit createRender made (its own engine, or the manager's default engine)
Borrowed(us) ==
    {u \in 1..Len(us) :
        /\ us[u].origin = "external"
        /\ \A v \in 1..Len(us) : us[v].origin = "createRender" => us[v].engine # us[u].engine}

\* C17: a call that disposes a unit a caller built and inserted with addRender
\* (removeRender, a replacing createRender, or dispose()) does not dispose the
\* engine the caller supplied with the unit.
C17_BorrowedEngineSurvives ==
    [][\A u \in Borrowed(units) :
           DisposesOf(trace', SceneObj(units[u].scene)) > 0 =>
               DisposesOf(trace', EngineObj(units[u].engine)) = 0]_vars

\* the positions of table m whose unit (in heap us) has the type
OfType(m, us, type) == {i \in 1..Len(m) : us[m[i].val].type = type}

\* C18: getAllRenderersOfType(type) returns one element per table entry whose
\* unit has the type, in the order of the entries: only units that are in the
\* table and have the type, each such entry's unit, none for a removed entry;
\* and it changes nothing.  After createRender("doc1") on an empty table the
\* scan for UNIVER_SHEET has exactly one element, whose unitId is "doc1".
C18_ScanByType ==
    /\ [][lastCall'.op = "getAllRenderersOfType" =>
              LET type == lastCall'.type
                  ret == lastCall'.retList
                  hits == OfType(renderMap, units, type)
              IN  /\ renderMap' = renderMap /\ units' = units /\ trace' = <<>>
                  /\ Len(ret) = Cardinality(hits)
                  /\ \A j \in 1..Len(ret) :
                         /\ ret[j] \in Live(renderMap)
                         /\ units[ret[j]].type = type
                  /\ \A i \in hits :
                         ret[Cardinality({k \in hits : k <= i})] = renderMap[i].val]_vars
    /\ []((lastCall.op = "createRender" /\ lastCall.unitId = "doc1" /\ Len(renderMap) = 1) =>
              LET ret == getAllRenderersOfType(State, "UNIVER_SHEET").retList
              IN  Len(ret) = 1 /\ units[ret[1]].unitId = "doc1" /\ ret[1] = lastCall.ret)

\* C18 witness: the scan for UNIVER_SHEET returned the one sheet unit of a table
\* that holds, before it, a unit of another type
C18_Witness ==
    /\ lastCall.op = "getAllRenderersOfType"
    /\ lastCall.type = "UNIVER_SHEET"
    /\ Len(lastCall.retList) = 1
    /\ Len(renderMap) = 2
    /\ units[renderMap[1].val].type = "UNIVER_SLIDE"
    /\ lastCall.retList[1] = renderMap[2].val

\* what a call did, in order, without what the subscribers saw
Calls(tr) == [i \in 1..Len(tr) |-> [call |-> tr[i].call, obj |-> tr[i].obj]]

DisposeCall(obj) == [call |-> "dispose", obj |-> obj]

\* the steps of the disposal protocol on unit u of heap us, in the order stated
Protocol(us, u, destroyEngine) ==
    [i \in 1..Len(us[u].components) |-> DisposeCall(ComponentObj(u, us[u].components[i]))]
        \o <<DisposeCall(SceneObj(us[u].scene))>>
        \o (IF us[u].disposable THEN <<DisposeCall(UnitObj(u))>> ELSE <<>>)
        \o (IF destroyEngine THEN <<DisposeCall(EngineObj(us[u].engine))>> ELSE <<>>)
        \o <<[call |-> "_renderDisposed$", obj |-> Obj("string", u, us[u].unitId)]>>

RECURSIVE ProtocolOfEach(_, _, _)
\* the protocol on the unit of each entry of table m from position i on
ProtocolOfEach(us, m, i) ==
    IF i > Len(m) THEN <<>>
    ELSE Protocol(us, m[i].val, TRUE) \o ProtocolOfEach(us, m, i + 1)

\* C19: every run of the disposal protocol makes its calls in this order: each
\* component of the unit once, the scene, the unit's own dispose if it has one,
\* the engine if it is to be destroyed, and last the unit's id on the "disposed"
\* stream - also when the engine is kept (the create-or-replace path given the
\* engine of the entry it replaces).
C19_ProtocolOrder ==
    /\ [][(lastCall'.op = "removeRender" /\ MapHas(renderMap, lastCall'.unitId)) =>
              Calls(trace') = Protocol(units, MapGet(renderMap, lastCall'.unitId), TRUE)]_vars
    /\ [][(lastCall'.op = "createRender" /\ MapHas(renderMap, lastCall'.unitId)) =>
              Calls(trace') =
                  Protocol(units, MapGet(renderMap, lastCall'.unitId), TRUE)
                      \o <<[call |-> "_renderCreated$",
                            obj |-> Obj("IRender", lastCall'.ret, lastCall'.unitId)]>>]_vars
    /\ [][lastCall'.op = "dispose" => Calls(trace') = ProtocolOfEach(units, renderMap, 1)]_vars
    /\ [](\A id \in UnitIds :
              (lastCall.op = "" /\ has(State, id)) =>
                  LET old == getRenderById(State, id)
                  IN  Calls(_createRender(State, id, units[old].engine, TRUE).trace) =
                          Protocol(units, old, FALSE))

\* C19 witness: removeRender ran the protocol on a RenderUnit with two
\* components: two components, scene, unit, engine, event
C19_Witness ==
    /\ lastCall.op = "removeRender"
    /\ Len(trace) = 6
    /\ trace[2].obj.kind = "component"
    /\ trace[3].obj.kind = "scene"
    /\ trace[4].obj.kind = "unit"
    /\ trace[5].obj.kind = "engine"
    /\ trace[6].call = "_renderDisposed$"

\* C20: no call of the manager runs the disposal protocol twice on the unit of
\* an entry the table holds, also when a subscriber of disposed$ calls
\* removeRender(id), createRender(id) or dispose() from its callback.
C20_NoSecondRun ==
    [][\A u \in Live(renderMap) :
           /\ DisposesOf(trace', SceneObj(units[u].scene)) <= 1
           /\ Cardinality({i \in NextsOn(trace', "_renderDisposed$") : trace'[i].obj.ref = u}) <= 1]_vars

\* C21: whoever looks the id up synchronously during createRender(id) - a
\* subscriber of "disposed", the constructor of a module being injected - finds
\* what the table held for id before the call (the previous unit, or nothing),
\* never the new unit; the new unit is first found at the "created" event, when
\* all its modules are injected and the table maps id to it.
C21_NoHalfBuiltLookup ==
    [][lastCall'.op = "createRender" =>
            LET id == lastCall'.unitId
                new == lastCall'.ret
                old == MapGet(renderMap, id)
                created == NextsOn(trace', "_renderCreated$")
            IN  /\ new # old
                /\ \A i \in 1..Len(trace') \ created : MapGet(trace'[i].table, id) = old
                /\ \A i \in created :
                       /\ MapGet(trace'[i].table, id) = new
                       /\ \A j \in 1..Len(trace') \ created : j < i
                /\ Cardinality({i \in 1..Len(trace') :
                                    trace'[i].call = "module" /\ trace'[i].obj.ref = new})
                       = Len(units'[new].injected)
                /\ MapGet(renderMap', id) = new]_vars

\* C21 witness: createRender replaced a unit: "disposed" was published for the old
\* unit and a module was injected into the new one during the call
C21_Witness ==
    /\ lastCall.op = "createRender"
    /\ \E i \in NextsOn(trace, "_renderDisposed$") : trace[i].obj.ref # lastCall.ret
    /\ \E i \in 1..Len(trace) : trace[i].call = "module" /\ trace[i].obj.ref = lastCall.ret

\* the list the registry of state (deps, arrays) holds for a type
ListFor(deps, arrays, type) ==
    IF type \in DOMAIN deps THEN arrays[deps[type]] ELSE <<>>

\* C22: the unit createRender(id) returns for a document of type T has been
\* injected exactly the list the registry held for T when the call was made:
\* the same modules in the same order, each as often as it is in the list, none
\* that is only in the list of another type, nothing when T has no list or an
\* empty one; and the unit does not share the list (a later change of the list
\* is not a change of the unit, C9).
C22_SeededFromRegistry ==
    [][(lastCall'.op = "createRender" /\ getUnit(lastCall'.unitId)) =>
            LET new == lastCall'.ret
                T == getUnitType(lastCall'.unitId)
                list == ListFor(renderDependencies, depArrays, T)
            IN  /\ units'[new].type = T
                /\ units'[new].injected = list
                /\ [i \in 1..Len(list) |-> list[i]] =
                       [i \in 1..Len(list) |->
                           LET at == {j \in 1..Len(trace') : trace'[j].call = "module"}
                               jth == CHOOSE j \in at : Cardinality({k \in at : k <= j}) = i
                           IN  trace'[jth].obj.key]
                /\ \A j \in 1..Len(trace') :
                       trace'[j].call = "module" => trace'[j].obj.ref = new
                /\ renderDependencies' = renderDependencies
                /\ depArrays' = depArrays]_vars

\* C22 witness: createRender made a sheet unit seeded with two modules
C22_Witness ==
    /\ lastCall.op = "createRender"
    /\ getUnit(lastCall.unitId)
    /\ Len(units[lastCall.ret].injected) = 2

\* (the case of a list of another type only)
C22_WitnessOtherType ==
    /\ lastCall.op = "createRender"
    /\ getUnit(lastCall.unitId)
    /\ units[lastCall.ret].injected = <<>>
    /\ ListFor(renderDependencies, depArrays, "UNIVER_SLIDE") # <<>>

RECURSIVE EntriesOf(_, _, _)
\* the entries the registrations not yet retracted appended to array a, in the
\* order in which they were appended
EntriesOf(hs, a, i) ==
    IF i > Len(hs) THEN <<>>
    ELSE (IF hs[i].dependencies = a /\ ~hs[i].disposed THEN hs[i].deps ELSE <<>>)
             \o EntriesOf(hs, a, i + 1)

\* C23: invoking the handle of a registration once removes from the list of
\* its type exactly the entries this registration appended: a list that held
\* the entries of the registrations in force, in order, holds afterwards the
\* entries of the others, in their original order (separately registered
\* duplicates included), and the lists of the other types are unchanged.
C23_HandleRemovesItsOwn ==
    [][(/\ lastCall'.op = "handle.dispose"
        /\ ~handles[lastCall'.ret].disposed
        /\ \A a \in 1..Len(depArrays) : depArrays[a] = EntriesOf(handles, a, 1)) =>
            LET h == lastCall'.ret
            IN  /\ handles'[h].disposed
                /\ \A a \in 1..Len(depArrays) :
                       depArrays'[a] = EntriesOf(handles', a, 1)
                /\ \A a \in 1..Len(depArrays) :
                       a # handles[h].dependencies => depArrays'[a] = depArrays[a]]_vars

\* C24: nothing is ever injected into a thumbnail unit, neither when it is
\* created nor when modules are registered for the type its stub carries
\* (the slide type): it has received no module, no call has instantiated a
\* module for it, and its with() answers absent for every module.
C24_ThumbNailNeverInjected ==
    \A u \in 1..Len(units) :
        units[u].isThumbNail =>
            /\ units[u].type = "UNIVER_SLIDE"
            /\ units[u].injected = <<>>
            /\ \A i \in 1..Len(trace) :
                   trace[i].call = "module" => trace[i].obj.ref # u
            /\ \A dep \in Dependencies : With(State, u, dep) = ""

\* C24 witness: modules were registered for the slide type while a thumbnail
\* unit was in the table
C24_Witness ==
    /\ lastCall.op \in {"registerRenderModules", "registerRenderModule"}
    /\ lastCall.type = "UNIVER_SLIDE"
    /\ ListFor(renderDependencies, depArrays, "UNIVER_SLIDE") # <<>>
    /\ \E i \in 1..Len(renderMap) : units[renderMap[i].val].isThumbNail

\* every disposal step of unit item of heap us was attempted in the call with trace tr
Attempted(tr, us, item) ==
    /\ \A i \in 1..Len(us[item].components) :
           DisposesOf(tr, ComponentObj(item, us[item].components[i])) >= 1
    /\ DisposesOf(tr, SceneObj(us[item].scene)) >= 1
    /\ us[item].disposable => DisposesOf(tr, UnitObj(item)) >= 1
    /\ DisposesOf(tr, EngineObj(us[item].engine)) >= 1

\* C25: disposal is best-effort. Whether or not one of the disposal steps of a
\* unit fails, removeRender(id) attempts every step of the unit (each
\* component, the scene, the unit itself, the engine) and removes the entry;
\* dispose() attempts every step of every unit and clears the table.
C25_BestEffort ==
    [][/\ lastCall'.op = "removeRender" =>
              LET item == MapGet(renderMap, lastCall'.unitId)
              IN  /\ item # Null => Attempted(trace', units, item)
                  /\ ~MapHas(renderMap', lastCall'.unitId)
       /\ lastCall'.op = "dispose" =>
              /\ \A item \in Live(renderMap) : Attempted(trace', units, item)
              /\ renderMap' = <<>>]_vars

\* how often the call with trace tr instantiated module dep for unit u
Instantiated(tr, u, dep) ==
    Cardinality({j \in 1..Len(tr) : tr[j].call = "module" /\ tr[j].obj = ModuleObj(u, dep)})

\* C26: a module's constructor that calls createRender or removeRender while
\* registerRenderModules(T, ms) injects is tolerated: every RenderUnit of type
\* T in the table when the registration returns has received each module of
\* ms exactly as often as ms holds it (a unit made during the call also once
\* the modules registered before), and no module is instantiated for a unit
\* that was in the table and is no longer.
C26_ReentrantInjection ==
    [][lastCall'.op = "registerRenderModules" =>
            LET T == lastCall'.type
                ms == handles'[lastCall'.ret].deps
                before == ListFor(renderDependencies, depArrays, T)
            IN  /\ \A u \in Live(renderMap') :
                       (units'[u].type = T /\ units'[u].isRenderUnit) =>
                           \A dep \in Dependencies :
                               Instantiated(trace', u, dep) =
                                   Count(ms, dep)
                                       + (IF u > Len(units) THEN Count(before, dep) ELSE 0)
                /\ \A j \in 1..Len(trace') :
                       trace'[j].call = "module" =>
                           LET u == trace'[j].obj.ref
                           IN  \/ u \in Live(trace'[j].table)
                               \/ /\ u \notin Live(renderMap)
                                  /\ \A k \in 1..(j - 1) : u \notin Live(trace'[k].table)]_vars

\* C27: the default engine is made by the first read of defaultEngine and by
\* nothing else, every later read returns that same engine, and dispose() of
\* the manager destroys it.
C27_DefaultEngineOwned ==
    [][/\ lastCall'.op = "defaultEngine" =>
              /\ lastCall'.ret = defaultEngine'
              /\ defaultEngine' # Null
              /\ IF defaultEngine = Null
                 THEN /\ defaultEngine' = nextEngine
                      /\ \A u \in 1..Len(units) : units[u].engine # defaultEngine'
                 ELSE defaultEngine' = defaultEngine
       /\ lastCall'.op \notin {"", "defaultEngine"} => defaultEngine' = defaultEngine
       /\ (lastCall'.op = "dispose" /\ defaultEngine # Null) =>
              DisposesOf(trace', EngineObj(defaultEngine)) >= 1]_vars

\* C28: every unit in the table that createRender made for a document of type
\* T has been injected each module of the registry's list for T at least as
\* often as the list holds it, however createRender, the register methods,
\* the handles and removeRender are interleaved.
C28_RegistryCovered ==
    \A u \in Live(renderMap) :
        (units[u].origin = "createRender" /\ ~units[u].isThumbNail) =>
            \A dep \in Dependencies :
                Count(units[u].injected, dep) >=
                    Count(ListFor(renderDependencies, depArrays, units[u].type), dep)

\* C28 witness: a unit in the table was made between two registrations for its
\* type, and the first of them has been retracted
C28_Witness ==
    /\ lastCall.op = "handle.dispose"
    /\ \E u \in Live(renderMap) :
           /\ units[u].origin = "createRender" /\ ~units[u].isThumbNail
           /\ ListFor(renderDependencies, depArrays, units[u].type) # <<>>
           /\ Len(units[u].injected) >
                  Len(ListFor(renderDependencies, depArrays, units[u].type))

\* the manager as a subscriber finds it at an entry of a call's trace
Seen(entry) == [State EXCEPT !.renderMap = entry.table]

\* C29: removeRender(id) and a createRender(id) that replaces publish the
\* "disposed" event of the old unit before the entry is deleted or
\* overwritten: at the event has(id) is true and getRenderById(id) is the old
\* unit, whose components, scene and engine have been disposed by then; the
\* entry is gone or replaced when the call returns.
C29_DisposedBeforeDelete ==
    [][(/\ lastCall'.op \in {"removeRender", "createRender"}
        /\ MapHas(renderMap, lastCall'.unitId)) =>
            LET id == lastCall'.unitId
                old == MapGet(renderMap, id)
                ev == {i \in NextsOn(trace', "_renderDisposed$") : trace'[i].obj.ref = old}
                Before(obj, i) ==
                    \E j \in 1..(i - 1) : trace'[j].call = "dispose" /\ trace'[j].obj = obj
            IN  /\ Cardinality(ev) = 1
                /\ \A i \in ev :
                       /\ trace'[i].delivered = ("_renderDisposed$" \notin completed)
                       /\ has(Seen(trace'[i]), id)
                       /\ getRenderById(Seen(trace'[i]), id) = old
                       /\ \A c \in 1..Len(units[old].components) :
                              Before(ComponentObj(old, units[old].components[c]), i)
                       /\ Before(SceneObj(units[old].scene), i)
                       /\ Before(EngineObj(units[old].engine), i)
                /\ MapGet(renderMap', id) # old]_vars

\* C29 witness: a createRender replaced a unit and its "disposed" event was delivered
C29_Witness ==
    /\ lastCall.op = "createRender"
    /\ \E i \in DeliveredOn(trace, "_renderDisposed$") :
           /\ MapGet(trace[i].table, lastCall.unitId) = trace[i].obj.ref
           /\ MapGet(renderMap, lastCall.unitId) # trace[i].obj.ref

\* (the case of removeRender)
C29_WitnessRemove ==
    /\ lastCall.op = "removeRender"
    /\ \E i \in DeliveredOn(trace, "_renderDisposed$") :
           /\ MapGet(trace[i].table, lastCall.unitId) = trace[i].obj.ref
           /\ ~MapHas(renderMap, lastCall.unitId)

\* C30: only setCurrent changes the current-unit pointer or publishes on the
\* current-unit stream. The pointer starts as the empty id, setCurrent(id)
\* makes it id, and createRender, addRender, removeRender, create, getCurrent
\* and the register methods leave it as it is and publish nothing on the
\* stream; getCurrent() is the table's entry for the pointer, so it is absent
\* once the current id was removed and the new unit once one is made for it.
C30_OnlySetCurrent ==
    /\ currentUnitId = ""
    /\ [][/\ lastCall'.op = "setCurrent" => currentUnitId' = lastCall'.unitId
          /\ lastCall'.op # "setCurrent" =>
                 /\ currentUnitId' = currentUnitId
                 /\ NextsOn(trace', "_currentRender$") = {}
          /\ lastCall'.op = "getCurrent" =>
                 lastCall'.ret = MapGet(renderMap, currentUnitId)
          /\ getCurrent(State').ret = MapGet(renderMap', currentUnitId')
          /\ (lastCall'.op = "removeRender" /\ lastCall'.unitId = currentUnitId) =>
                 getCurrent(State').ret = Null
          /\ (lastCall'.op = "createRender" /\ lastCall'.unitId = currentUnitId) =>
                 getCurrent(State').ret = lastCall'.ret]_vars

\* C30 witness: the unit of the current id, set by setCurrent, was removed
C30_Witness ==
    /\ lastCall.op = "removeRender"
    /\ lastCall.unitId = currentUnitId
    /\ NextsOn(trace, "_renderDisposed$") # {}
    /\ renderMap # <<>>

\* C31: dispose() of the manager does not close the table. After it,
\* createRender(id) still inserts a new unit, on an engine and a scene no
\* other unit has and none of whose parts has been disposed, addRender(id, u)
\* still inserts u, and has and getRenderById report them; the "created"
\* event is published to nobody, and removeRender(id) runs the disposal
\* protocol on the unit, engine included, and removes the entry while its
\* "disposed" event reaches nobody.
C31_TableOpenAfterDispose ==
    [][disposed =>
          /\ lastCall'.op = "createRender" =>
                 LET id == lastCall'.unitId
                     new == lastCall'.ret
                 IN  /\ new \in (1..Len(units')) \ (1..Len(units))
                     /\ has(State', id)
                     /\ getRenderById(State', id) = new
                     /\ \A u \in 1..Len(units) :
                            /\ units[u].engine # units'[new].engine
                            /\ units[u].scene # units'[new].scene
                     /\ defaultEngine' # units'[new].engine
                     /\ \A obj \in StepsOf(State', new) : ~BagIn(obj, disposeCalls')
                     /\ Cardinality(NextsOn(trace', "_renderCreated$")) = 1
                     /\ DeliveredOn(trace', "_renderCreated$") = {}
          /\ lastCall'.op = "addRender" =>
                 /\ has(State', lastCall'.unitId)
                 /\ getRenderById(State', lastCall'.unitId) = lastCall'.ret
                 /\ trace' = <<>>
          /\ (lastCall'.op = "removeRender" /\ MapHas(renderMap, lastCall'.unitId)) =>
                 LET old == MapGet(renderMap, lastCall'.unitId)
                 IN  /\ RanOnce(trace', units, old)
                     /\ DisposesOf(trace', EngineObj(units[old].engine)) = 1
                     /\ DeliveredOn(trace', "_renderDisposed$") = {}
                     /\ ~has(State', lastCall'.unitId)
          /\ disposed']_vars

\* C31 witness: a unit createRender made after dispose() has been removed again
C31_Witness ==
    /\ disposed
    /\ lastCall.op = "removeRender"
    /\ \E i \in NextsOn(trace, "_renderDisposed$") :
           /\ units[trace[i].obj.ref].origin = "createRender"
           /\ ~trace[i].delivered
           /\ BagIn(EngineObj(units[trace[i].obj.ref].engine), disposeCalls)

\* (the case of addRender after dispose())
C31_WitnessAdd ==
    /\ disposed
    /\ lastCall.op = "addRender"
    /\ MapGet(renderMap, lastCall.unitId) = lastCall.ret

\* C32: TableGroupManager.deleteAll() removes every table group: when it has
\* returned, getTableGroups() is empty, however many groups there were.
C32_DeleteAllEmpties ==
    tableCall.op = "deleteAll" => getTableGroups(tableGroups) = <<>>

\* C33 as stated: after every addPopup, removePopup, removeAll and dispose()
\* the latest value emitted on popups$ is the entries of the popup map;
\* removePopup of an id that is not in the map emits nothing and changes
\* nothing; dispose() emits the empty list, its last value, and completes.
C33_Original ==
    [][/\ popupsValue' = popups(PopupState')
       /\ (popupCall'.op = "removePopup" /\ ~MapHas(popupMap, popupCall'.id)) =>
              /\ popupCall'.emitted = <<>>
              /\ popupMap' = popupMap
       /\ popupCall'.op = "dispose" =>
              /\ popupCall'.emitted = << <<>> >>
              /\ popupsCompleted']_vars

\* C33, amended: until dispose() has completed popups$, every addPopup,
\* removePopup of an id in the map and removeAll emits the entries of the map
\* as it has become, removePopup of an id that is not in the map emits
\* nothing and changes nothing, and the first dispose() emits the empty list,
\* completes the stream and empties the map, so that the latest value emitted
\* is the entries of the map. After dispose() nothing is emitted any more: the
\* latest value stays the empty list, while addPopup still puts its popup
\* into the map, removePopup and removeAll still remove, and a further
\* dispose() empties the map again.
C33_StreamFollowsMapUntilDispose ==
    [][/\ ~popupsCompleted =>
              /\ popupsValue' = popups(PopupState')
              /\ popupCall'.op \in {"addPopup", "removeAll"} =>
                     popupCall'.emitted = <<popups(PopupState')>>
              /\ popupCall'.op = "removePopup" =>
                     IF MapHas(popupMap, popupCall'.id)
                     THEN popupCall'.emitted = <<popups(PopupState')>>
                     ELSE popupCall'.emitted = <<>> /\ popupMap' = popupMap
              /\ popupCall'.op = "dispose" =>
                     /\ popupCall'.emitted = << <<>> >>
                     /\ popupsCompleted'
                     /\ popupMap' = <<>>
       /\ popupsCompleted =>
              /\ popupCall'.emitted = <<>>
              /\ popupsValue' = <<>>
              /\ popupsCompleted'
       /\ popupCall'.op = "addPopup" =>
              /\ MapGet(popupMap', popupCall'.ret) \in Popups
              /\ \A id \in PopupIds \ {popupCall'.ret} :
                     MapGet(popupMap', id) = MapGet(popupMap, id)
       /\ popupCall'.op = "removePopup" =>
              /\ ~MapHas(popupMap', popupCall'.id)
              /\ \A id \in PopupIds \ {popupCall'.id} :
                     MapGet(popupMap', id) = MapGet(popupMap, id)
       /\ popupCall'.op \in {"removeAll", "dispose"} => popupMap' = <<>>]_vars

\* C33 witness: a popup was added after dispose(): it is in the map and the
\* stream, completed, has not emitted it
C33_Witness ==
    /\ popupCall.op = "addPopup"
    /\ popupsCompleted
    /\ popupMap # <<>>
    /\ popupsValue = <<>>

\* (the case before dispose(): a removal emitted the entries that are left)
C33_WitnessLive ==
    /\ popupCall.op = "removePopup"
    /\ ~popupsCompleted
    /\ popupCall.emitted = <<popupsValue>>
    /\ popupsValue # <<>>

====
